---- MODULE Spec2Model ----
(***************************************************************************)
(* CredGen loan-origination orchestrator.                                   *)
(*                                                                          *)
(* The conversation orchestrator (backend/master_agent.py), the two HTTP    *)
(* front ends that drive it (app.py, one MasterAgent per session, and       *)
(* backend/app.py, one module-level MasterAgent shared by all sessions),    *)
(* the underwriting engine (backend/underwriting.py) and the offer engine   *)
(* (backend/sales_agent.py).                                                *)
(*                                                                          *)
(* Encodings.  Python None is the integer None == -1; an empty string is 0   *)
(* (falsy but not None); every other entity value is a positive integer.    *)
(* Risk scores are in thousandths, interest rates in hundredths of a per    *)
(* cent, similarities and confidences in ten-thousandths.  A stage is the   *)
(* name of a ConversationStage member; the raw Python string 'closed' that   *)
(* the documentation endpoints store is the distinct value StrClosed.       *)
(***************************************************************************)
EXTENDS Integers, Sequences, FiniteSets, TLC

\* ------------------------------------------------------------------------
\* Bounds of the exploration
\* ------------------------------------------------------------------------
MaxAttempts == 4

\* ------------------------------------------------------------------------
\* Field registry, stages, intents            (backend/master_agent.py)
\* ------------------------------------------------------------------------
None == -1

REQUIRED_FIELDS == {"name", "loan_amount", "tenure", "age", "income", "employment_type", "purpose"}

KYC_FIELDS == {"pan", "aadhaar", "pincode", "address"}

Fields == REQUIRED_FIELDS \cup KYC_FIELDS

ConversationStage == {"GREETING", "COLLECTING", "UNDERWRITING", "OFFER", "REJECTION_COUNSELING", "KYC", "DOCUMENTATION", "CLOSED", "FRAUD_CHECK"}

StrClosed == "closed"

\* INTENT_TEMPLATES in dictionary order: the order max() breaks ties in.
IntentOrder == << "GREETING", "LOAN_APPLICATION", "RATE_INQUIRY", "NEGOTIATE_TERMS", "ACCEPT_OFFER", "REJECT_OFFER", "HELP_GENERAL", "EXIT", "PROVIDE_INFO" >>

TemplateIntents == { IntentOrder[i] : i \in 1..Len(IntentOrder) }

IntentType == TemplateIntents \cup {"UNCLEAR"}

NoIntent == "None"

Truthy(v) == v > 0

\* ------------------------------------------------------------------------
\* Session identifiers and the two front ends
\* ------------------------------------------------------------------------
Sids == {"s1", "s2"}

Variants == {"root", "backend"}

\* The MasterAgent (and so the intent cache) that serves a session:
\* app.py builds one per session, backend/app.py shares one.
AgentOf(v, s) == IF v = "root" THEN s ELSE "shared"

Agents == Sids \cup {"shared"}

\* ------------------------------------------------------------------------
\* User texts.  Scoring and extraction are external collaborators; a text
\* is given by what they return for it: the similarity per intent, the
\* extracted entities, and which keyword lists of the rule passes match.
\* ------------------------------------------------------------------------
Texts == {"hello", "apply for a loan", "arjun 30 salaried 600000 home 500000 36 months", "arjun 70 retired", "yes", "not interested", "reduce the rate", "pan aadhaar 560001 address: mg road", "pan aadhaar address: mg road", "goodbye"}

Sim(main, mainv, other, otherv) == [i \in TemplateIntents |-> IF i = main THEN mainv ELSE IF i = other THEN otherv ELSE 1000]

Similarity(t) ==
  CASE t = "hello" -> Sim("GREETING", 9000, "HELP_GENERAL", 2000)
    [] t = "apply for a loan" -> Sim("LOAN_APPLICATION", 9000, "PROVIDE_INFO", 3000)
    [] t = "arjun 30 salaried 600000 home 500000 36 months" -> Sim("PROVIDE_INFO", 6000, "LOAN_APPLICATION", 3000)
    [] t = "arjun 70 retired" -> Sim("PROVIDE_INFO", 3500, "GREETING", 3000)
    [] t = "yes" -> Sim("GREETING", 5500, "ACCEPT_OFFER", 4500)
    [] t = "not interested" -> Sim("REJECT_OFFER", 8000, "EXIT", 3000)
    [] t = "reduce the rate" -> Sim("NEGOTIATE_TERMS", 8000, "RATE_INQUIRY", 5000)
    [] t = "pan aadhaar 560001 address: mg road" -> Sim("PROVIDE_INFO", 5000, "HELP_GENERAL", 2000)
    [] t = "pan aadhaar address: mg road" -> Sim("PROVIDE_INFO", 5000, "HELP_GENERAL", 2000)
    [] OTHER -> Sim("EXIT", 9000, "GREETING", 4000)

Keywords(t) ==
  CASE t = "hello" -> {"rb_greet"}
    [] t = "apply for a loan" -> {"rb_loan"}
    [] t = "yes" -> {"rb_accept"}
    [] t = "not interested" -> {"rate_kw", "rb_rate", "rb_reject"}
    [] t = "reduce the rate" -> {"rate_kw", "rb_rate", "rb_nego"}
    [] t = "goodbye" -> {"exit_kw", "rb_exit"}
    [] t = "my address: mg road, goodbye" -> {"info_kw", "exit_kw", "rb_exit"}
    [] t = "address: mg road, bye" -> {"exit_kw", "rb_exit"}
    [] t = "how about address: mg road" -> {"question", "rb_help"}
    [] t = "what can you do" -> {"question", "rb_help"}
    [] t = "what is the interest rate" -> {"info_kw", "question", "rate_kw", "rb_rate", "rb_help"}
    [] OTHER -> {}

\* extract_entities: the dictionary holds only the keys an extractor found.
extract_entities(t) ==
  CASE t = "arjun 30 salaried 600000 home 500000 36 months" ->
         [f \in REQUIRED_FIELDS |-> CASE f = "loan_amount" -> 500000 [] f = "tenure" -> 36 [] f = "age" -> 30 [] f = "income" -> 600000 [] OTHER -> 1]
    [] t = "arjun 70 retired" -> [f \in {"name", "age", "employment_type"} |-> IF f = "age" THEN 70 ELSE 1]
    [] t = "pan aadhaar 560001 address: mg road" -> [f \in KYC_FIELDS |-> 1]
    [] t = "pan aadhaar address: mg road" -> [f \in {"pan", "aadhaar", "address"} |-> 1]
    [] t \in {"my address: mg road, goodbye", "address: mg road, bye", "how about address: mg road"} ->
         [f \in {"address"} |-> 1]
    [] OTHER -> [f \in {} |-> None]

AnyValue(entities) == \E k \in DOMAIN entities : Truthy(entities[k])

\* ------------------------------------------------------------------------
\* Intent resolver                              (backend/master_agent.py)
\* ------------------------------------------------------------------------
\* boost_rules of _apply_context_boosting, factor in tenths (10 = no boost).
BoostFactor(stage, intent) ==
  CASE stage = "OFFER" /\ intent \in {"ACCEPT_OFFER", "REJECT_OFFER"} -> 14
    [] stage = "OFFER" /\ intent = "NEGOTIATE_TERMS" -> 13
    [] stage = "REJECTION_COUNSELING" /\ intent = "LOAN_APPLICATION" -> 13
    [] stage = "REJECTION_COUNSELING" /\ intent = "NEGOTIATE_TERMS" -> 12
    [] stage = "KYC" /\ intent = "PROVIDE_INFO" -> 13
    [] OTHER -> 10

apply_context_boosting(state, similarities) ==
  LET staged == [i \in TemplateIntents |-> (similarities[i] * BoostFactor(state.stage, i)) \div 10]
  IN  IF state.last_intent = "LOAN_APPLICATION"
        THEN [staged EXCEPT !["PROVIDE_INFO"] = (@ * 12) \div 10]
        ELSE staged

\* max(boosted, key=boosted.get): the first intent, in dictionary order,
\* that carries the greatest value.
BestIntent(boosted) ==
  LET top == CHOOSE v \in {boosted[i] : i \in TemplateIntents} : \A i \in TemplateIntents : boosted[i] <= v
      first == CHOOSE n \in 1..Len(IntentOrder) :
                 /\ boosted[IntentOrder[n]] = top
                 /\ \A m \in 1..(n - 1) : boosted[IntentOrder[m]] # top
  IN  IntentOrder[first]

Max(a, b) == IF a >= b THEN a ELSE b

validate_intent_with_rules(t, ai_intent, confidence) ==
  LET kw == Keywords(t)
      found == AnyValue(extract_entities(t))
  IN  IF "info_kw" \in kw /\ found THEN [intent |-> "PROVIDE_INFO", confidence |-> Max(confidence, 7000)]
      ELSE IF confidence < 4000 /\ found THEN [intent |-> "LOAN_APPLICATION", confidence |-> 7000]
      ELSE IF "exit_kw" \in kw THEN [intent |-> "EXIT", confidence |-> 9000]
      ELSE IF "question" \in kw
        THEN IF "rate_kw" \in kw
               THEN [intent |-> "RATE_INQUIRY", confidence |-> Max(confidence, 8000)]
               ELSE [intent |-> "HELP_GENERAL", confidence |-> Max(confidence, 7000)]
      ELSE [intent |-> ai_intent, confidence |-> confidence]

rule_based_intent_detection(t) ==
  LET kw == Keywords(t)
  IN  IF "rb_greet" \in kw THEN "GREETING"
      ELSE IF "rb_loan" \in kw THEN "LOAN_APPLICATION"
      ELSE IF "rb_rate" \in kw THEN "RATE_INQUIRY"
      ELSE IF "rb_nego" \in kw THEN "NEGOTIATE_TERMS"
      ELSE IF "rb_accept" \in kw THEN "ACCEPT_OFFER"
      ELSE IF "rb_reject" \in kw THEN "REJECT_OFFER"
      ELSE IF "rb_help" \in kw THEN "HELP_GENERAL"
      ELSE IF "rb_exit" \in kw THEN "EXIT"
      ELSE IF AnyValue(extract_entities(t)) THEN "PROVIDE_INFO"
      ELSE "UNCLEAR"

NoEntry == [intent |-> NoIntent, confidence |-> 0]

ScorerModes == {"scores", "raises", "unavailable"}

\* detect_intent: the resolved (intent, confidence), the intent cache it
\* leaves, and whether the answer came out of the cache.
detect_intent(state, intent_cache, t, scorer) ==
  IF intent_cache[t] # NoEntry
    THEN [res |-> intent_cache[t], cache |-> intent_cache, hit |-> TRUE]
  ELSE IF scorer = "unavailable"
    THEN [res |-> [intent |-> rule_based_intent_detection(t), confidence |-> 6000],
          cache |-> intent_cache, hit |-> FALSE]
  ELSE IF scorer = "raises"
    THEN [res |-> [intent |-> rule_based_intent_detection(t), confidence |-> 5000],
          cache |-> intent_cache, hit |-> FALSE]
  ELSE LET boosted == apply_context_boosting(state, Similarity(t))
           best == BestIntent(boosted)
           validated == validate_intent_with_rules(t, best, boosted[best])
       IN  [res |-> validated, cache |-> [intent_cache EXCEPT ![t] = validated], hit |-> FALSE]

\* ------------------------------------------------------------------------
\* Application state and the stage machine      (backend/master_agent.py)
\* ------------------------------------------------------------------------
initialize_state ==
  [stage |-> "GREETING", last_intent |-> NoIntent,
   entities |-> [f \in Fields |-> None],
   risk_score |-> None, approval_status |-> "None", interest_rate |-> None,
   offer_accepted |-> FALSE,
   missing_fields |-> REQUIRED_FIELDS, missing_kyc_fields |-> KYC_FIELDS,
   current_offer |-> "None", attempts |-> 0, fraud_check_passed |-> FALSE,
   sanction_letter |-> FALSE]

\* transition_rules: the stage an intent leads to, "none" where the table
\* has no entry (its string keys never equal an intent).
\* transition_rules with an entry that closes the conversation on EXIT in
\* every stage.
TransitionRule_exit_closes(stage, intent) ==
  CASE intent = "EXIT" -> "CLOSED"
    [] stage = "GREETING" /\ intent \in {"LOAN_APPLICATION", "PROVIDE_INFO"} -> "COLLECTING"
    [] stage = "COLLECTING" /\ intent \in {"LOAN_APPLICATION", "PROVIDE_INFO"} -> "COLLECTING"
    [] stage = "OFFER" /\ intent = "ACCEPT_OFFER" -> "KYC"
    [] stage = "OFFER" /\ intent = "REJECT_OFFER" -> "CLOSED"
    [] stage = "OFFER" /\ intent = "NEGOTIATE_TERMS" -> "OFFER"
    [] stage = "REJECTION_COUNSELING" /\ intent \in {"LOAN_APPLICATION", "NEGOTIATE_TERMS"} -> "COLLECTING"
    [] stage = "KYC" /\ intent = "PROVIDE_INFO" -> "KYC"
    [] OTHER -> "none"

TransitionRule(stage, intent) ==
  CASE stage = "GREETING" /\ intent \in {"LOAN_APPLICATION", "PROVIDE_INFO"} -> "COLLECTING"
    [] stage = "COLLECTING" /\ intent \in {"LOAN_APPLICATION", "PROVIDE_INFO"} -> "COLLECTING"
    [] stage = "OFFER" /\ intent = "ACCEPT_OFFER" -> "KYC"
    [] stage = "OFFER" /\ intent = "REJECT_OFFER" -> "CLOSED"
    [] stage = "OFFER" /\ intent = "NEGOTIATE_TERMS" -> "OFFER"
    [] stage = "REJECTION_COUNSELING" /\ intent \in {"LOAN_APPLICATION", "NEGOTIATE_TERMS"} -> "COLLECTING"
    [] stage = "KYC" /\ intent = "PROVIDE_INFO" -> "KYC"
    [] OTHER -> "none"

\* _handle_state_transition that consults the intent table before the two
\* completeness conditions.
handle_state_transition_intents_first(state, intent) ==
  IF TransitionRule(state.stage, intent) # "none"
    THEN [state EXCEPT !.stage = TransitionRule(state.stage, intent)]
  ELSE IF state.stage = "COLLECTING" /\ state.missing_fields = {}
    THEN [state EXCEPT !.stage = "UNDERWRITING"]
  ELSE IF state.stage = "KYC" /\ state.missing_kyc_fields = {}
    THEN [state EXCEPT !.stage = "FRAUD_CHECK"]
  ELSE state

handle_state_transition(state, intent) ==
  IF state.stage = "COLLECTING" /\ state.missing_fields = {}
    THEN [state EXCEPT !.stage = "UNDERWRITING"]
  ELSE IF state.stage = "KYC" /\ state.missing_kyc_fields = {}
    THEN [state EXCEPT !.stage = "FRAUD_CHECK"]
  ELSE IF TransitionRule(state.stage, intent) # "none"
    THEN [state EXCEPT !.stage = TransitionRule(state.stage, intent)]
  ELSE state

\* The keys of the extracted dictionary that update_state stores.
Collected(entities) == {k \in DOMAIN entities : entities[k] # None}

\* update_state that clears missing_fields only (the KYC set is forgotten).
update_state_required_only(state, entities, intent) ==
  LET got == Collected(entities)
      stored == [state EXCEPT
                   !.entities = [f \in Fields |-> IF f \in got THEN entities[f] ELSE @[f]],
                   !.missing_fields = @ \ got,
                   !.last_intent = intent,
                   !.attempts = @ + 1]
  IN  handle_state_transition(stored, intent)

\* update_state that drops the stored decision when a message brings new
\* applicant data.
update_state_clears_decision(state, entities, intent) ==
  LET got == Collected(entities)
      stored == [state EXCEPT
                   !.entities = [f \in Fields |-> IF f \in got THEN entities[f] ELSE @[f]],
                   !.missing_fields = @ \ got,
                   !.missing_kyc_fields = @ \ got,
                   !.risk_score = IF got # {} THEN None ELSE @,
                   !.approval_status = IF got # {} THEN "None" ELSE @,
                   !.interest_rate = IF got # {} THEN None ELSE @,
                   !.last_intent = intent,
                   !.attempts = @ + 1]
  IN  handle_state_transition(stored, intent)

update_state(state, entities, intent) ==
  LET got == Collected(entities)
      stored == [state EXCEPT
                   !.entities = [f \in Fields |-> IF f \in got THEN entities[f] ELSE @[f]],
                   !.missing_fields = @ \ got,
                   !.missing_kyc_fields = @ \ got,
                   !.last_intent = intent,
                   !.attempts = @ + 1]
  IN  handle_state_transition(stored, intent)

\* route_to_worker sending every message of the offer stage to sales.
route_to_worker_offer_to_sales(state, intent) ==
  CASE state.stage = "UNDERWRITING" -> "underwriting"
    [] state.stage \in {"REJECTION_COUNSELING", "OFFER"} -> "sales"
    [] state.stage = "FRAUD_CHECK" -> "fraud"
    [] state.stage = "DOCUMENTATION" -> "documentation"
    [] OTHER -> "none"

route_to_worker(state, intent) ==
  CASE state.stage = "UNDERWRITING" -> "underwriting"
    [] state.stage = "REJECTION_COUNSELING" -> "sales"
    [] state.stage = "OFFER" -> IF intent \in {"RATE_INQUIRY", "NEGOTIATE_TERMS"} THEN "sales" ELSE "none"
    [] state.stage = "FRAUD_CHECK" -> "fraud"
    [] state.stage = "DOCUMENTATION" -> "documentation"
    [] OTHER -> "none"

Response(message, terminate, processing, next_action) ==
  [type |-> "dict", message |-> message, terminate |-> terminate,
   processing |-> processing, next_action |-> next_action]

generate_collecting_response(state) ==
  IF state.missing_fields = {}
    THEN Response("collecting_processing", FALSE, TRUE, "none")
    ELSE Response("collecting_prompt", FALSE, FALSE, "none")

generate_kyc_response(state) ==
  IF state.missing_kyc_fields = {}
    THEN Response("kyc_processing", FALSE, TRUE, "none")
    ELSE Response("kyc_prompt", FALSE, FALSE, "none")

\* current_offer as a response: the record set_fraud_check_result stores
\* terminates, offer details passed to set_underwriting_result do not.
OfferResponse(current_offer) ==
  IF current_offer = "verification_failed"
    THEN Response("verification_failed", TRUE, FALSE, "none")
    ELSE Response("offer_details", FALSE, FALSE, "none")

\* generate_response.  For GREETING the template table holds the bare
\* string _get_random_response returns, not a dictionary.
generate_response(state, intent) ==
  CASE state.stage = "CLOSED" -> Response("thank_you", TRUE, FALSE, "none")
    [] state.stage = "DOCUMENTATION" -> Response("proceed_to_documentation", FALSE, FALSE, "documentation")
    [] state.stage \in {"OFFER", "REJECTION_COUNSELING"} /\ state.current_offer # "None" -> OfferResponse(state.current_offer)
    [] state.stage = "GREETING" -> [Response("greeting", FALSE, FALSE, "none") EXCEPT !.type = "str"]
    [] state.stage = "COLLECTING" -> generate_collecting_response(state)
    [] state.stage = "KYC" -> generate_kyc_response(state)
    [] state.stage = "UNDERWRITING" -> Response("underwriting_processing", FALSE, TRUE, "none")
    [] state.stage = "FRAUD_CHECK" -> Response("fraud_processing", FALSE, TRUE, "none")
    [] OTHER -> CASE intent = "HELP_GENERAL" -> Response("help", FALSE, FALSE, "none")
                  [] intent = "RATE_INQUIRY" -> Response("rates", FALSE, FALSE, "none")
                  [] intent = "UNCLEAR" -> Response("rephrase", FALSE, FALSE, "none")
                  [] OTHER -> Response("assist_further", FALSE, FALSE, "none")

\* handle: the state and cache it leaves and the result it returns.
\* kind "ok" is the assembled result, "error" the generic error result of
\* the except branch, "raises" an exception leaving handle (the except
\* branch itself reads stage.value, which a raw string does not have).
handle(state, intent_cache, t, scorer) ==
  LET detected == detect_intent(state, intent_cache, t, scorer)
      intent == detected.res.intent
      after == update_state(state, extract_entities(t), intent)
      worker == route_to_worker(after, intent)
      response == generate_response(after, intent)
      kind == IF after.stage \notin ConversationStage THEN "raises"
              ELSE IF response.type = "str" THEN "error"
              ELSE "ok"
  IN  [state |-> after, cache |-> detected.cache, hit |-> detected.hit,
       result |-> IF kind = "ok"
                    THEN [kind |-> "ok", message |-> response.message, worker |-> worker,
                          intent |-> intent, stage |-> after.stage,
                          terminate |-> response.terminate, processing |-> response.processing]
                    ELSE [kind |-> kind, message |-> "error", worker |-> "none",
                          intent |-> "error", stage |-> after.stage,
                          terminate |-> FALSE, processing |-> FALSE]]

\* Engine callbacks.  offer_details is "None" when the argument is omitted.
set_underwriting_result(state, risk_score, approval_status, interest_rate, offer_details) ==
  LET scored == [state EXCEPT !.risk_score = risk_score,
                              !.approval_status = IF approval_status THEN "True" ELSE "False",
                              !.interest_rate = interest_rate]
  IN  IF approval_status
        THEN [scored EXCEPT !.stage = "OFFER",
                            !.current_offer = IF offer_details # "None" THEN offer_details ELSE @]
        ELSE [scored EXCEPT !.stage = "REJECTION_COUNSELING"]

set_fraud_check_result(state, passed) ==
  IF passed
    THEN [state EXCEPT !.fraud_check_passed = TRUE, !.stage = "DOCUMENTATION"]
    ELSE [state EXCEPT !.fraud_check_passed = FALSE, !.stage = "CLOSED",
                       !.current_offer = "verification_failed"]

\* ------------------------------------------------------------------------
\* Underwriting engine                           (backend/underwriting.py)
\* ------------------------------------------------------------------------
MIN_AGE == 21

MAX_AGE == 60

MIN_INCOME == 300000

MAX_LOAN == 2000000

MIN_LOAN == 50000

RISK_THRESHOLD_REJECT == 800

FALLBACK_RISK == 500

UW_BASE_RATE == 950

UW_MAX_RATE == 1800

\* round(): to the nearest integer, ties to the even one.
RoundHalfEven(n, d) ==
  LET q == n \div d
      r == n % d
  IN  IF 2 * r < d THEN q
      ELSE IF 2 * r > d THEN q + 1
      ELSE IF q % 2 = 0 THEN q ELSE q + 1

Min(a, b) == IF a <= b THEN a ELSE b

\* _mock_interest_rate as a discount: the rate falls as the risk rises.
mock_interest_rate_falling(risk_score) ==
  RoundHalfEven(UW_MAX_RATE * 1000 - risk_score * (UW_MAX_RATE - UW_BASE_RATE), 1000)

\* _mock_interest_rate: risk in thousandths, rate in hundredths of a per cent.
mock_interest_rate(risk_score) ==
  RoundHalfEven(Min(UW_BASE_RATE * 1000 + risk_score * (UW_MAX_RATE - UW_BASE_RATE), UW_MAX_RATE * 1000), 1000)

hard_reject(reason) ==
  [raises |-> FALSE, approval_status |-> FALSE, risk_score |-> 1000,
   interest_rate |-> None, reason |-> reason, model_called |-> FALSE]

\* What the risk model does when asked: a probability, or an exception.
Predictions == {[raises |-> FALSE, p |-> 300], [raises |-> FALSE, p |-> 900], [raises |-> TRUE, p |-> 0]}

\* The predictions the front-end runs draw from.
ServedPredictions == {p \in Predictions : ~p.raises}

UnderwritingRaises == [raises |-> TRUE, approval_status |-> FALSE, risk_score |-> None,
                       interest_rate |-> None, reason |-> "TypeError", model_called |-> FALSE]

\* perform_underwriting with the model scored before the gates are tested.
perform_underwriting_scores_first(entities, prediction) ==
  LET age == entities["age"]
      income == entities["income"]
      loan_amount == entities["loan_amount"]
      risk_score == IF prediction.raises THEN FALLBACK_RISK ELSE prediction.p
      scored(r) == [r EXCEPT !.model_called = TRUE]
  IN  IF age = None THEN scored(UnderwritingRaises)
      ELSE IF age < MIN_AGE \/ age > MAX_AGE THEN scored(hard_reject("age"))
      ELSE IF income = None THEN scored(UnderwritingRaises)
      ELSE IF income < MIN_INCOME THEN scored(hard_reject("income"))
      ELSE IF loan_amount = None THEN scored(UnderwritingRaises)
      ELSE IF loan_amount > MAX_LOAN \/ loan_amount < MIN_LOAN THEN scored(hard_reject("loan_amount"))
      ELSE IF risk_score > RISK_THRESHOLD_REJECT THEN scored(hard_reject("risk_score"))
      ELSE [raises |-> FALSE, approval_status |-> TRUE, risk_score |-> risk_score,
            interest_rate |-> mock_interest_rate(risk_score), reason |-> "approved",
            model_called |-> TRUE]

\* perform_underwriting with the income gate tested before the age gate.
perform_underwriting_income_first(entities, prediction) ==
  LET age == entities["age"]
      income == entities["income"]
      loan_amount == entities["loan_amount"]
      risk_score == IF prediction.raises THEN FALLBACK_RISK ELSE prediction.p
  IN  IF income = None THEN UnderwritingRaises
      ELSE IF income < MIN_INCOME THEN hard_reject("income")
      ELSE IF age = None THEN UnderwritingRaises
      ELSE IF age < MIN_AGE \/ age > MAX_AGE THEN hard_reject("age")
      ELSE IF loan_amount = None THEN UnderwritingRaises
      ELSE IF loan_amount > MAX_LOAN \/ loan_amount < MIN_LOAN THEN hard_reject("loan_amount")
      ELSE IF risk_score > RISK_THRESHOLD_REJECT
        THEN [hard_reject("risk_score") EXCEPT !.model_called = TRUE]
      ELSE [raises |-> FALSE, approval_status |-> TRUE, risk_score |-> risk_score,
            interest_rate |-> mock_interest_rate(risk_score), reason |-> "approved",
            model_called |-> TRUE]

\* perform_underwriting.  entities.get(key, 0) yields None for a key that
\* is present and unset, and comparing None with a number raises.
\* perform_underwriting without the try around predict_proba: a failed
\* prediction leaves the call as an exception.
perform_underwriting_unguarded(entities, prediction) ==
  LET age == entities["age"]
      income == entities["income"]
      loan_amount == entities["loan_amount"]
      risk_score == prediction.p
  IN  IF age = None THEN UnderwritingRaises
      ELSE IF age < MIN_AGE \/ age > MAX_AGE THEN hard_reject("age")
      ELSE IF income = None THEN UnderwritingRaises
      ELSE IF income < MIN_INCOME THEN hard_reject("income")
      ELSE IF loan_amount = None THEN UnderwritingRaises
      ELSE IF loan_amount > MAX_LOAN \/ loan_amount < MIN_LOAN THEN hard_reject("loan_amount")
      ELSE IF prediction.raises THEN UnderwritingRaises
      ELSE IF risk_score > RISK_THRESHOLD_REJECT
        THEN [hard_reject("risk_score") EXCEPT !.model_called = TRUE]
      ELSE [raises |-> FALSE, approval_status |-> TRUE, risk_score |-> risk_score,
            interest_rate |-> mock_interest_rate(risk_score), reason |-> "approved",
            model_called |-> TRUE]

perform_underwriting(entities, prediction) ==
  LET age == entities["age"]
      income == entities["income"]
      loan_amount == entities["loan_amount"]
      risk_score == IF prediction.raises THEN FALLBACK_RISK ELSE prediction.p
  IN  IF age = None THEN UnderwritingRaises
      ELSE IF age < MIN_AGE \/ age > MAX_AGE THEN hard_reject("age")
      ELSE IF income = None THEN UnderwritingRaises
      ELSE IF income < MIN_INCOME THEN hard_reject("income")
      ELSE IF loan_amount = None THEN UnderwritingRaises
      ELSE IF loan_amount > MAX_LOAN \/ loan_amount < MIN_LOAN THEN hard_reject("loan_amount")
      ELSE IF risk_score > RISK_THRESHOLD_REJECT
        THEN [hard_reject("risk_score") EXCEPT !.model_called = TRUE]
      ELSE [raises |-> FALSE, approval_status |-> TRUE, risk_score |-> risk_score,
            interest_rate |-> mock_interest_rate(risk_score), reason |-> "approved",
            model_called |-> TRUE]

\* ------------------------------------------------------------------------
\* Sales agent                                     (backend/sales_agent.py)
\* ------------------------------------------------------------------------
BASE_RATE == 950
MAX_RATE == 1800
NEGOTIATION_DECREMENT == 50
MIN_ALTERNATIVE_AMOUNT == 50000

\* calculate_interest: the rate tier of a risk score.
calculate_interest(risk_score) ==
  LET rate == IF risk_score <= 200 THEN BASE_RATE
              ELSE IF risk_score <= 500 THEN BASE_RATE + 250
              ELSE IF risk_score <= 800 THEN BASE_RATE + 550
              ELSE MAX_RATE
  IN  Min(rate, MAX_RATE)

\* The rate generate_offer arrives at from the rate it read from the state.
offered_rate(interest_rate, negotiation_request) ==
  IF negotiation_request THEN Max(BASE_RATE, interest_rate - NEGOTIATION_DECREMENT) ELSE interest_rate

\* Exact arithmetic for the EMI.  The code works in floats on numbers past
\* any machine integer ((1 + r) ** n); here a natural number is the sequence
\* of its digits in base 10000, lowest first, and a float quotient is kept
\* exact until it is rounded.  For the amounts, rates and tenures drawn
\* below the float result and the exactly rounded one are the same number.
RECURSIVE BigOf(_)
BigOf(n) == IF n = 0 THEN << >> ELSE << n % 10000 >> \o BigOf(n \div 10000)

BigPad(x, len) == x \o [i \in 1..(len - Len(x)) |-> 0]

\* The number without its leading zero digits.
BigTrim(x) ==
  LET nonzero == {i \in 1..Len(x) : x[i] # 0}
  IN  IF nonzero = {} THEN << >> ELSE SubSeq(x, 1, CHOOSE i \in nonzero : \A j \in nonzero : j <= i)

\* -1, 0 or 1 as x is below, equal to or above y.
BigCmp(x, y) ==
  LET len == Max(Len(x), Len(y))
      a == BigPad(x, len)
      b == BigPad(y, len)
      differ == {i \in 1..len : a[i] # b[i]}
      top == CHOOSE i \in differ : \A j \in differ : j <= i
  IN  IF differ = {} THEN 0 ELSE IF a[top] < b[top] THEN -1 ELSE 1

\* The digits of x + y + carry for x and y of one length, and the carry out;
\* the lower half of the digits first, then the upper half with its carry.
RECURSIVE BigAddDigits(_, _, _)
BigAddDigits(x, y, carry) ==
  IF Len(x) = 1
    THEN LET v == x[1] + y[1] + carry IN [d |-> << v % 10000 >>, c |-> v \div 10000]
    ELSE LET h == Len(x) \div 2
             lo == BigAddDigits(SubSeq(x, 1, h), SubSeq(y, 1, h), carry)
             hi == BigAddDigits(SubSeq(x, h + 1, Len(x)), SubSeq(y, h + 1, Len(x)), lo.c)
         IN  [d |-> lo.d \o hi.d, c |-> hi.c]

BigAdd(x, y) ==
  LET len == Max(Len(x), Len(y))
      sum == BigAddDigits(BigPad(x, len), BigPad(y, len), 0)
  IN  IF len = 0 THEN << >> ELSE sum.d \o BigOf(sum.c)

\* The digits of x * m + carry for a factor m below 200000, and the carry out.
RECURSIVE BigTimesDigits(_, _, _)
BigTimesDigits(x, m, carry) ==
  IF Len(x) = 1
    THEN LET v == x[1] * m + carry IN [d |-> << v % 10000 >>, c |-> v \div 10000]
    ELSE LET h == Len(x) \div 2
             lo == BigTimesDigits(SubSeq(x, 1, h), m, carry)
             hi == BigTimesDigits(SubSeq(x, h + 1, Len(x)), m, lo.c)
         IN  [d |-> lo.d \o hi.d, c |-> hi.c]

BigTimes(x, m) ==
  LET product == BigTimesDigits(x, m, 0)
  IN  IF x = << >> THEN << >> ELSE product.d \o BigOf(product.c)

\* The digits of x - y - borrow for x and y of one length, and the borrow out.
RECURSIVE BigSubDigits(_, _, _)
BigSubDigits(x, y, borrow) ==
  IF Len(x) = 1
    THEN LET v == x[1] - y[1] - borrow
         IN  [d |-> << IF v < 0 THEN v + 10000 ELSE v >>, c |-> IF v < 0 THEN 1 ELSE 0]
    ELSE LET h == Len(x) \div 2
             lo == BigSubDigits(SubSeq(x, 1, h), SubSeq(y, 1, h), borrow)
             hi == BigSubDigits(SubSeq(x, h + 1, Len(x)), SubSeq(y, h + 1, Len(x)), lo.c)
         IN  [d |-> lo.d \o hi.d, c |-> hi.c]

\* x - y, for x at least y.
BigSub(x, y) ==
  LET len == Max(Len(x), Len(y))
  IN  IF len = 0 THEN << >> ELSE BigSubDigits(BigPad(x, len), BigPad(y, len), 0).d

RECURSIVE BigMul(_, _)
BigMul(x, y) ==
  IF y = << >> THEN << >>
  ELSE IF Len(y) = 1 THEN BigTimes(x, y[1])
  ELSE LET h == Len(y) \div 2
       IN  BigAdd(BigMul(x, SubSeq(y, 1, h)), [i \in 1..h |-> 0] \o BigMul(x, SubSeq(y, h + 1, Len(y))))

\* m to the power n, by repeated squaring.
RECURSIVE BigPow(_, _)
BigPow(m, n) ==
  IF n = 0 THEN << 1 >>
  ELSE LET half == BigPow(m, n \div 2)
           square == BigMul(half, half)
       IN  IF n % 2 = 1 THEN BigTimes(square, m) ELSE square

\* The largest q in lo..hi with q * d <= n.
RECURSIVE BigQuot(_, _, _, _)
BigQuot(n, d, lo, hi) ==
  IF lo = hi THEN lo
  ELSE LET mid == (lo + hi + 1) \div 2
       IN  IF BigCmp(BigMul(d, BigOf(mid)), n) <= 0 THEN BigQuot(n, d, mid, hi) ELSE BigQuot(n, d, lo, mid - 1)

\* round(n / d): to the nearest integer, a tie to the even one.
BigRound(n, d) ==
  LET q == BigQuot(n, d, 0, 1073741823)
      c == BigCmp(BigTimes(BigSub(n, BigMul(d, BigOf(q))), 2), d)
  IN  IF c > 0 \/ (c = 0 /\ q % 2 = 1) THEN q + 1 ELSE q

\* An EMI the code computed, in rupees num / den; raises when the call ended
\* in ZeroDivisionError.  NoEmi: no call was made.
Emi(num, den) == [computed |-> TRUE, raises |-> FALSE, num |-> num, den |-> den]

EmiRaises == [computed |-> TRUE, raises |-> TRUE, num |-> 0, den |-> 1]

NoEmi == [computed |-> FALSE, raises |-> FALSE, num |-> 0, den |-> 1]

\* principal * rate_monthly * power_term / (power_term - 1) as one fraction
\* over a common denominator: rate_monthly is rate / 120000 for a rate in
\* hundredths of a per cent, power_term is (120000 + rate)^n / 120000^n.
EmiQuotient(principal, rate, tenure_months) ==
  LET power_num == BigPow(120000 + rate, tenure_months)
      power_den == BigPow(120000, tenure_months)
  IN  [num |-> BigMul(BigMul(BigOf(principal), BigOf(rate)), power_num),
       den |-> BigTimes(BigSub(power_num, power_den), 120000)]

\* SalesAgent._calculate_emi: rounded to the rupee; principal / tenure at a
\* rate of 0; a tenure of 0 divides by zero.
SalesAgent_calculate_emi(principal, rate_annual, tenure_months) ==
  IF rate_annual = 0
    THEN IF tenure_months = 0 THEN EmiRaises ELSE Emi(principal, tenure_months)
  ELSE IF tenure_months = 0 THEN EmiRaises
  ELSE LET emi == EmiQuotient(principal, rate_annual, tenure_months)
       IN  Emi(BigRound(emi.num, emi.den), 1)

\* calculate_emi of app.py: 0 for a tenure of 0 or less, otherwise the same
\* quotient rounded to two decimals; at a rate of 0 the quotient is 0.0 / 0.0.
calculate_emi(principal, rate, tenure_months) ==
  IF tenure_months <= 0 THEN Emi(0, 1)
  ELSE IF rate = 0 THEN EmiRaises
  ELSE LET emi == EmiQuotient(principal, rate, tenure_months)
       IN  Emi(BigRound(BigTimes(emi.num, 100), emi.den), 100)

\* The alternative principal at 70 per cent of the original.
alternative_principal_seventy(principal) == (principal * 7) \div 10

\* int(principal * DEFAULT_ALTERNATIVE_OFFER_FACTOR): the float product and
\* the floor of 6 * principal / 10 agree for every principal up to 3,000,000.
alternative_principal(principal) == (principal * 6) \div 10

\* generate_offer without the floor of the negotiation rule.
generate_offer_unfloored(master_agent_state, negotiation_request) ==
  [state |-> IF negotiation_request /\ master_agent_state.approval_status = "True"
               THEN [master_agent_state EXCEPT !.interest_rate = @ - NEGOTIATION_DECREMENT]
               ELSE master_agent_state,
   raises |-> FALSE, type |-> IF negotiation_request THEN "negotiated" ELSE "approved",
   interest_rate |-> master_agent_state.interest_rate - NEGOTIATION_DECREMENT,
   new_amount |-> None, action |-> "wait_for_offer_decision", emi |-> NoEmi]

\* generate_offer as one uninterrupted call: the state it leaves and the
\* offer it returns (type, rate, alternative amount, action) with the EMI
\* it computed for the message.
generate_offer(master_agent_state, negotiation_request) ==
  LET entities == master_agent_state.entities
      principal == entities["loan_amount"]
      tenure == entities["tenure"]
      Offer(type, rate, new_amount, action, emi) ==
        [state |-> master_agent_state, raises |-> FALSE, type |-> type, interest_rate |-> rate,
         new_amount |-> new_amount, action |-> action, emi |-> emi]
      Raises == [Offer("none", None, None, "none", NoEmi) EXCEPT !.raises = TRUE]
  IN  IF master_agent_state.approval_status # "True"
        THEN IF principal = None \/ master_agent_state.risk_score = None THEN Raises
             ELSE LET new_principal == alternative_principal(principal)
                      interest_rate == calculate_interest(master_agent_state.risk_score)
                      emi == SalesAgent_calculate_emi(new_principal, interest_rate, tenure)
                  IN  IF new_principal < MIN_ALTERNATIVE_AMOUNT
                        THEN Offer("rejected_final", interest_rate, None, "end_session", NoEmi)
                        ELSE IF tenure = None \/ emi.raises THEN Raises
                        ELSE Offer("rejected_alternative", interest_rate, new_principal, "wait_for_offer_decision", emi)
      ELSE IF master_agent_state.interest_rate = None \/ principal = None \/ tenure = None THEN Raises
      ELSE LET interest_rate == offered_rate(master_agent_state.interest_rate, negotiation_request)
               emi == SalesAgent_calculate_emi(principal, interest_rate, tenure)
           IN  IF emi.raises THEN Raises
               ELSE [Offer(IF negotiation_request THEN "negotiated" ELSE "approved", interest_rate, None,
                           "wait_for_offer_decision", emi)
                       EXCEPT !.state = IF negotiation_request
                                          THEN [master_agent_state EXCEPT !.interest_rate = interest_rate]
                                          ELSE master_agent_state]

\* ------------------------------------------------------------------------
\* Fraud score                                  (backend/fraud_detection.py)
\* ------------------------------------------------------------------------
\* Scores are in ten-thousandths.  A quotient the code leaves as a float is
\* kept as numerator and denominator.
ONE == 10000

\* A key that cust_data does not hold.
Absent == -2

\* A None among the names, and the names documents carry.
NoName == "<None>"

Names == {NoName, "", "  ", "Riya Sharma", "riya sharma ", "Riya K Sharma", "Sharma Riya", "Amit Verma"}

\* name.strip().lower(); a None or blank name cleans to the empty string.
Clean(name) ==
  CASE name = "Riya Sharma" -> "riya sharma"
    [] name = "riya sharma " -> "riya sharma"
    [] name = "Riya K Sharma" -> "riya k sharma"
    [] name = "Sharma Riya" -> "sharma riya"
    [] name = "Amit Verma" -> "amit verma"
    [] OTHER -> ""

RECURSIVE name_list_cleaned(_)
name_list_cleaned(name_list) ==
  IF name_list = << >> THEN << >>
  ELSE IF Clean(Head(name_list)) = "" THEN name_list_cleaned(Tail(name_list))
  ELSE << Clean(Head(name_list)) >> \o name_list_cleaned(Tail(name_list))

\* The pairs i < j the double loop visits.
PairsOf(n) == {p \in (1..n) \X (1..n) : p[1] < p[2]}

RECURSIVE SumOver(_, _)
SumOver(f, S) ==
  IF S = {} THEN 0
  ELSE LET x == CHOOSE y \in S : TRUE IN f[x] + SumOver(f, S \ {x})

\* The name list as the code meets it: the key absent, None, or a list.
NameList(kind, names) == [kind |-> kind, names |-> names]

\* name_score.  token_set_ratio is rapidfuzz's: its value for two different
\* cleaned names is the argument ratio, for two equal ones it is 100.
name_score(name_list, ratio) ==
  IF name_list.kind \in {"absent", "None"}
    THEN [raises |-> TRUE, num |-> 0, den |-> 1, flag |-> "none"]
  ELSE LET cleaned == name_list_cleaned(name_list.names)
           pairs == PairsOf(Len(cleaned))
           score_ind == [p \in pairs |-> IF cleaned[p[1]] = cleaned[p[2]] THEN ONE ELSE ratio[p]]
       IN  IF Len(cleaned) < 2
             THEN [raises |-> FALSE, num |-> ONE, den |-> 1, flag |-> "LOW"]
             ELSE [raises |-> FALSE, num |-> SumOver(score_ind, pairs), den |-> Cardinality(pairs),
                   flag |-> IF \E p \in pairs : score_ind[p] < 8000 THEN "HIGH" ELSE "LOW"]

\* A date of birth as the code meets it: the key absent, None, a blank
\* string, a string neither format parses, or a date in one of the formats.
Dob(kind, y, m, d) == [kind |-> kind, y |-> y, m |-> m, d |-> d]

\* The age in whole years on the day of evaluation.
AgeOn(day, birth_date) ==
  day.y - birth_date.y
    - (IF day.m < birth_date.m \/ (day.m = birth_date.m /\ day.d < birth_date.d) THEN 1 ELSE 0)

\* age_score treating every age from 18 to 80 as unremarkable.
age_score_no_band(dob, day) ==
  IF dob.kind \in {"None", "blank", "junk"} THEN 0
  ELSE IF 18 <= AgeOn(day, dob) /\ AgeOn(day, dob) <= 80 THEN ONE ELSE 0

\* age_score.
age_score(dob, day) ==
  IF dob.kind \in {"None", "blank"} THEN 0
  ELSE IF dob.kind = "junk" THEN 0
  ELSE LET age == AgeOn(day, dob)
       IN  IF 18 <= age /\ age <= 80
             THEN IF age <= 21 \/ age >= 60 THEN ONE \div 2 ELSE ONE
             ELSE 0

\* income_score with an income of zero passed on to the range test.
income_score_zero_passes(declared_income) ==
  IF declared_income = None \/ declared_income < 0 THEN [income_score |-> 0, flag |-> "HIGH"]
  ELSE IF declared_income > 10000000 \/ declared_income < 10000 THEN [income_score |-> 3000, flag |-> "MEDIUM"]
  ELSE [income_score |-> ONE, flag |-> "LOW"]

\* income_score.
income_score(declared_income) ==
  IF declared_income = None \/ declared_income <= 0 THEN [income_score |-> 0, flag |-> "HIGH"]
  ELSE IF declared_income > 10000000 \/ declared_income < 10000 THEN [income_score |-> 3000, flag |-> "MEDIUM"]
  ELSE [income_score |-> ONE, flag |-> "LOW"]

NoFraudScore == [called |-> FALSE, raises |-> FALSE, name_score |-> [num |-> 0, den |-> 1], name_flag |-> "none",
                 age_score |-> 0, income_score |-> 0, income_flag |-> "none", num |-> 0, den |-> 1]

\* fraud_score summing the sub-scores without dividing by their number.
fraud_score_sum(data, day, ratio) ==
  LET n == name_score(data.name_list, ratio)
      a == age_score(data.dob, day)
      i == income_score(data.declared_income)
  IN  IF n.raises \/ data.dob.kind = "absent" \/ data.declared_income = Absent
        THEN [NoFraudScore EXCEPT !.called = TRUE, !.raises = TRUE]
        ELSE [called |-> TRUE, raises |-> FALSE, name_score |-> [num |-> n.num, den |-> n.den], name_flag |-> n.flag,
              age_score |-> a, income_score |-> i.income_score, income_flag |-> i.flag,
              num |-> n.num + (a + i.income_score) * n.den, den |-> n.den]

\* fraud_score: the three sub-scores in the order name, age, income (a
\* missing key or a None name list raises), and their sum over 3.
fraud_score(data, day, ratio) ==
  LET n == name_score(data.name_list, ratio)
      a == age_score(data.dob, day)
      i == income_score(data.declared_income)
  IN  IF n.raises \/ data.dob.kind = "absent" \/ data.declared_income = Absent
        THEN [NoFraudScore EXCEPT !.called = TRUE, !.raises = TRUE]
        ELSE [called |-> TRUE, raises |-> FALSE, name_score |-> [num |-> n.num, den |-> n.den], name_flag |-> n.flag,
              age_score |-> a, income_score |-> i.income_score, income_flag |-> i.flag,
              num |-> n.num + (a + i.income_score) * n.den, den |-> 3 * n.den]

\* ------------------------------------------------------------------------
\* HTTP front ends                                (app.py, backend/app.py)
\* ------------------------------------------------------------------------
VARIABLES
  master_agent_state, \* the state dictionary generate_offer calls share
  sales_thread,       \* each caller of generate_offer: position, arguments, locals
  quoted,             \* the rate underwriting had set before any negotiation
  sales_offer,        \* the last generate_offer call: its argument and what it returned
  application,        \* the entities perform_underwriting is called with
  underwriting_result, \* what the last perform_underwriting call returned
  cust_data,          \* the customer record fraud_score is called with
  today,              \* datetime.today() when fraud_score runs
  fraud_result,       \* what the last fraud_score call computed
  emi_args,           \* the principal, rate and tenure an EMI is computed for
  emi_result,         \* the last EMI call: which function, and what it returned
  rule_args,          \* the text, intent and confidence the rule pass is called with
  rule_result,        \* what the last _validate_intent_with_rules call returned
  route_args,         \* the state and intent route_to_worker is called with
  route_result,       \* what the last route_to_worker call returned
  now,                \* time.time(), in seconds
  session_obj,        \* app.py: the session dictionary stored under each identifier
  heap,               \* app.py: the session dictionaries ever created
  sweeper,            \* app.py: the cleanup thread
  requests,           \* app.py: the chat requests in flight
  variant,        \* which front end runs: "root" (app.py) or "backend" (backend/app.py)
  user_sessions,  \* the session identifiers present in the session store
  app_state,      \* the application state of each session
  intent_cache,   \* the intent cache of each MasterAgent
  cached_by,      \* for each cache entry, the session whose request stored it
  reply           \* the last request served and what it returned

salesVars == << master_agent_state, sales_thread, quoted, sales_offer >>

sweepVars == << now, session_obj, heap, sweeper, requests >>

calcVars == << emi_args, emi_result, rule_args, rule_result, route_args, route_result >>

engineVars == << application, underwriting_result, cust_data, today, fraud_result, calcVars >>

frontVars == << variant, user_sessions, app_state, intent_cache, cached_by, reply >>

vars == << frontVars, salesVars, sweepVars, engineVars >>

EmptyCache == [t \in Texts |-> NoEntry]

NoResult == [kind |-> "none", message |-> "none", worker |-> "none", intent |-> "none",
             stage |-> "none", terminate |-> FALSE, processing |-> FALSE]

Reply(op, sid, found, status, error) ==
  [op |-> op, sid |-> sid, found |-> found, status |-> status, error |-> error,
   result |-> NoResult, hit |-> FALSE, by |-> "none"]

\* The error bodies of the front ends, by the signal they stand for.
SessionNotFoundErrors == {"Invalid or expired session.", "Session not found", "No active session."}

PreconditionNotMetErrors == {"offer_not_accepted", "kyc_incomplete", "Error: Offer not accepted or missing data."}

RECURSIVE SumAttempts(_, _)
SumAttempts(states, S) ==
  IF S = {} THEN 0
  ELSE LET s == CHOOSE x \in S : TRUE
       IN  states[s].attempts + SumAttempts(states, S \ {s})

TotalAttempts == SumAttempts(app_state, Sids)

\* generate_sanction_letter.  In app.py it always raises (current_offer is
\* None or, past that, the EMI format specifier is invalid); in
\* backend/app.py formatting an unset amount or rate raises.
LetterRaises(v, state) ==
  IF v = "root" THEN TRUE
  ELSE state.entities["loan_amount"] = None \/ state.interest_rate = None

\* documentation without the acceptance check of backend/app.py.
documentation_unchecked(v, s, found, state) ==
  IF ~found
    THEN [state |-> state, reply |-> Reply("documentation", s, found, 400,
                                           IF v = "root" THEN "Invalid or expired session." ELSE "Error: Offer not accepted or missing data.")]
  ELSE IF LetterRaises(v, state)
    THEN [state |-> state, reply |-> Reply("documentation", s, found, 500, "exception")]
  ELSE [state |-> [state EXCEPT !.stage = StrClosed], reply |-> Reply("documentation", s, found, 200, "none")]

\* The documentation request as a function of the stored state.
documentation(v, s, found, state) ==
  IF v = "root"
    THEN IF ~found THEN [state |-> state, reply |-> Reply("documentation", s, found, 400, "Invalid or expired session.")]
         ELSE IF ~state.offer_accepted
           THEN [state |-> state, reply |-> Reply("documentation", s, found, 400, "offer_not_accepted")]
         ELSE IF \E f \in {"pan", "aadhaar", "address"} : ~Truthy(state.entities[f])
           THEN [state |-> state, reply |-> Reply("documentation", s, found, 400, "kyc_incomplete")]
         ELSE IF LetterRaises(v, state)
           THEN [state |-> state, reply |-> Reply("documentation", s, found, 500, "documentation_failed")]
         ELSE [state |-> [state EXCEPT !.stage = StrClosed, !.sanction_letter = TRUE],
               reply |-> Reply("documentation", s, found, 200, "none")]
    ELSE IF ~found \/ ~state.offer_accepted
           THEN [state |-> state, reply |-> Reply("documentation", s, found, 400, "Error: Offer not accepted or missing data.")]
         ELSE IF LetterRaises(v, state)
           THEN [state |-> state, reply |-> Reply("documentation", s, found, 500, "exception")]
         ELSE [state |-> [state EXCEPT !.stage = StrClosed],
               reply |-> Reply("documentation", s, found, 200, "none")]

\* The callers of generate_offer, and the values of their variables while
\* no call is running.
Threads == {"t1", "t2"}

IdleThread == [pc |-> "idle", negotiation_request |-> FALSE, interest_rate |-> None]

NoOffer == [called |-> FALSE, negotiation_request |-> FALSE, raises |-> FALSE, type |-> "none",
            interest_rate |-> None, new_amount |-> None, action |-> "none", emi |-> NoEmi]

SalesIdle ==
  /\ sales_offer = NoOffer
  /\ master_agent_state = initialize_state
  /\ sales_thread = [th \in Threads |-> IdleThread]
  /\ quoted = None

\* The session dictionaries app.py can allocate in a run, and the values of
\* the cleanup thread's and the requests' variables before they start.
MaxObjs == 3

ObjIds == 1..MaxObjs

NoObj == 0

NewSession == [allocated |-> FALSE, last_activity |-> 0, interaction_count |-> 0]

SleepingSweeper == [pc |-> "sleeping", current_time |-> 0, size |-> 0, seen |-> {}, expired_sessions |-> {}]

NoRequest == [pc |-> "idle", sid |-> "none", session |-> NoObj]

SweepIdle ==
  /\ now = 0
  /\ session_obj = [s \in Sids |-> NoObj]
  /\ heap = [o \in ObjIds |-> NewSession]
  /\ sweeper = SleepingSweeper
  /\ requests = [th \in Threads |-> NoRequest]

\* The values of the fraud score's variables before any call.
FraudIdle ==
  /\ cust_data = [name_list |-> NameList("list", << >>), dob |-> Dob("None", 0, 0, 0), declared_income |-> None]
  /\ today = [y |-> 2026, m |-> 11, d |-> 6]
  /\ fraud_result = NoFraudScore

\* The values of the single calls' variables before any call.
NoEmiCall == [by |-> "none", emi |-> NoEmi]

NoRuleCall == [called |-> FALSE, intent |-> NoIntent, confidence |-> 0]

RulesIdle ==
  /\ rule_args = [text |-> "hello", ai_intent |-> "GREETING", confidence |-> 0]
  /\ rule_result = NoRuleCall

NoRouteCall == [called |-> FALSE, worker |-> "none"]

RouteIdle ==
  /\ route_args = [state |-> initialize_state, intent |-> "GREETING"]
  /\ route_result = NoRouteCall

EmiIdle ==
  /\ emi_args = [principal |-> 0, rate |-> 0, tenure_months |-> 0]
  /\ emi_result = NoEmiCall

CalcIdle == EmiIdle /\ RulesIdle /\ RouteIdle

\* The values of the engines' variables before any engine call.
NoDecision == [called |-> FALSE, raises |-> FALSE, approval_status |-> FALSE, risk_score |-> None,
               interest_rate |-> None, reason |-> "none", model_called |-> FALSE,
               model_output |-> [raises |-> FALSE, p |-> 0]]

EngineIdle ==
  /\ application = [f \in Fields |-> None]
  /\ underwriting_result = NoDecision
  /\ FraudIdle
  /\ CalcIdle

Init ==
  /\ SalesIdle
  /\ SweepIdle
  /\ EngineIdle
  /\ variant \in Variants
  /\ user_sessions = {}
  /\ app_state = [s \in Sids |-> initialize_state]
  /\ intent_cache = [a \in Agents |-> EmptyCache]
  /\ cached_by = [a \in Agents |-> [t \in Texts |-> "none"]]
  /\ reply = Reply("none", "none", FALSE, 0, "none")

\* POST /chat: creates the session when it is unknown, then handle.
Chat(s, t, scorer) ==
  /\ TotalAttempts < MaxAttempts
  /\ LET found == s \in user_sessions
         a == AgentOf(variant, s)
         fresh_agent == variant = "root" /\ ~found
         cache0 == IF fresh_agent THEN EmptyCache ELSE intent_cache[a]
         by0 == IF fresh_agent THEN [x \in Texts |-> "none"] ELSE cached_by[a]
         h == handle(app_state[s], cache0, t, scorer)
     IN  /\ user_sessions' = user_sessions \cup {s}
         /\ app_state' = [app_state EXCEPT ![s] = h.state]
         /\ intent_cache' = [intent_cache EXCEPT ![a] = h.cache]
         /\ cached_by' = [cached_by EXCEPT ![a] = IF h.cache[t] # cache0[t] THEN [by0 EXCEPT ![t] = s] ELSE by0]
         /\ reply' = [Reply("chat", s, found, IF h.result.kind = "raises" THEN 500 ELSE 200,
                            IF h.result.kind = "raises" THEN "server_error" ELSE "none")
                        EXCEPT !.result = h.result, !.hit = h.hit, !.by = by0[t]]
  /\ UNCHANGED << engineVars, salesVars, sweepVars, variant >>

\* POST /chat of app.py with an empty message: rejected before the session
\* is looked up.
ChatEmpty(s) ==
  /\ variant = "root"
  /\ reply' = Reply("chat", s, s \in user_sessions, 400, "empty_input")
  /\ UNCHANGED << engineVars, salesVars, sweepVars, variant, user_sessions, app_state, intent_cache, cached_by >>

\* POST /underwrite.  app.py calls set_fraud_result, which MasterAgent does
\* not define: the request ends in its except branch.  backend/app.py runs
\* the engine and the underwriting callback.
Underwrite(s, prediction) ==
  LET found == s \in user_sessions
      uw == perform_underwriting(app_state[s].entities, prediction)
  IN  /\ IF variant = "root"
           THEN /\ reply' = IF found THEN Reply("underwrite", s, found, 500, "underwriting_failed")
                                     ELSE Reply("underwrite", s, found, 400, "Invalid or expired session.")
                /\ UNCHANGED app_state
         ELSE IF ~found
           THEN /\ reply' = Reply("underwrite", s, found, 400, "No active session.")
                /\ UNCHANGED app_state
         ELSE IF uw.raises
           THEN /\ reply' = Reply("underwrite", s, found, 500, "exception")
                /\ UNCHANGED app_state
         ELSE /\ reply' = Reply("underwrite", s, found, 200, "none")
              /\ app_state' = [app_state EXCEPT ![s] =
                     set_underwriting_result(@, uw.risk_score, uw.approval_status,
                                             mock_interest_rate(uw.risk_score), "None")]
      /\ UNCHANGED << engineVars, salesVars, sweepVars, variant, user_sessions, intent_cache, cached_by >>

\* The fraud flags app.py tells apart: 'High' rejects, anything else goes on
\* to underwriting.
FraudFlags == {"Low", "High"}

\* MasterAgent.set_fraud_result as app.py calls it.  backend/master_agent.py
\* does not define it; it is taken to record the score and the flag, neither
\* of which is a field of the application state kept here.
set_fraud_result(state, fraud_flag) == state

\* POST /underwrite of app.py with the screening it calls in place
\* (FraudAgent.perform_fraud_check answering fraud_flag, and
\* set_fraud_result).  A 'High' flag stores the rejection; otherwise
\* perform_underwriting is called with a fraud_score keyword that
\* UnderwritingAgent.perform_underwriting does not take, and the request
\* ends in its except branch.
UnderwriteScreened(s, fraud_flag) ==
  LET found == s \in user_sessions
      screened == set_fraud_result(app_state[s], fraud_flag)
  IN  /\ variant = "root"
      /\ IF ~found
           THEN /\ reply' = Reply("underwrite", s, found, 400, "Invalid or expired session.")
                /\ UNCHANGED app_state
         ELSE IF fraud_flag = "High"
           THEN /\ reply' = Reply("underwrite", s, found, 200, "none")
                /\ app_state' = [app_state EXCEPT ![s] =
                       set_underwriting_result(screened, 999000, FALSE, 0, "None")]
         ELSE /\ reply' = Reply("underwrite", s, found, 500, "underwriting_failed")
              /\ app_state' = [app_state EXCEPT ![s] = screened]
      /\ UNCHANGED << engineVars, salesVars, sweepVars, variant, user_sessions, intent_cache, cached_by >>

\* POST /sales.  The stage is a ConversationStage member (or the raw string
\* 'closed'), never the string 'offer' or 'rejection_counseling': app.py
\* takes its last branch, backend/app.py asks for an offer without
\* negotiation and then calls set_offer, which MasterAgent does not define.
Sales(s) ==
  LET found == s \in user_sessions
  IN  /\ reply' = IF variant = "root"
                    THEN IF found THEN Reply("sales", s, found, 200, "need_more_information")
                                  ELSE Reply("sales", s, found, 400, "Invalid or expired session.")
                    ELSE IF found THEN Reply("sales", s, found, 500, "exception")
                                  ELSE Reply("sales", s, found, 400, "No active session.")
      /\ UNCHANGED << engineVars, salesVars, sweepVars, variant, user_sessions, app_state, intent_cache, cached_by >>

\* POST /fraud (app.py only): ends in its except branch at set_fraud_result.
Fraud(s) ==
  LET found == s \in user_sessions
  IN  /\ variant = "root"
      /\ reply' = IF found THEN Reply("fraud", s, found, 500, "fraud_check_failed")
                           ELSE Reply("fraud", s, found, 400, "Invalid or expired session.")
      /\ UNCHANGED << engineVars, salesVars, sweepVars, variant, user_sessions, app_state, intent_cache, cached_by >>

\* POST /documentation (app.py), POST /generate-letter (backend/app.py).
Documentation(s) ==
  LET d == documentation(variant, s, s \in user_sessions, app_state[s])
  IN  /\ reply' = d.reply
      /\ app_state' = [app_state EXCEPT ![s] = d.state]
      /\ UNCHANGED << engineVars, salesVars, sweepVars, variant, user_sessions, intent_cache, cached_by >>

\* POST /reset/<session_id> (app.py only): a new MasterAgent for the session.
Reset(s) ==
  LET found == s \in user_sessions
  IN  /\ variant = "root"
      /\ IF found
           THEN /\ reply' = Reply("reset", s, found, 200, "none")
                /\ app_state' = [app_state EXCEPT ![s] = initialize_state]
                /\ intent_cache' = [intent_cache EXCEPT ![s] = EmptyCache]
                /\ cached_by' = [cached_by EXCEPT ![s] = [t \in Texts |-> "none"]]
           ELSE /\ reply' = Reply("reset", s, found, 404, "Session not found")
                /\ UNCHANGED << app_state, intent_cache, cached_by >>
      /\ UNCHANGED << engineVars, salesVars, sweepVars, variant, user_sessions >>

\* The engine callbacks of the orchestrator, invoked on a session's agent
\* with a result the underwriting engine can return.
UnderwritingCallback(s, uw) ==
      /\ s \in user_sessions
      /\ app_state' = [app_state EXCEPT ![s] =
             set_underwriting_result(@, uw.risk_score, uw.approval_status, uw.interest_rate, "None")]
      /\ reply' = Reply("set_underwriting_result", s, TRUE, 200, "none")
      /\ UNCHANGED << engineVars, salesVars, sweepVars, variant, user_sessions, intent_cache, cached_by >>

FraudCallback(s, passed) ==
  /\ s \in user_sessions
  /\ app_state' = [app_state EXCEPT ![s] = set_fraud_check_result(@, passed)]
  /\ reply' = Reply("set_fraud_check_result", s, TRUE, 200, "none")
  /\ UNCHANGED << engineVars, salesVars, sweepVars, variant, user_sessions, intent_cache, cached_by >>

\* The session the single-session runs talk to, the texts they send and the
\* results the engine callbacks are invoked with.
Clients == {"s1"}

ServedTexts == {"arjun 30 salaried 600000 home 500000 36 months", "arjun 70 retired", "yes", "not interested", "pan aadhaar 560001 address: mg road"}

Applicant == [f \in Fields |-> CASE f = "loan_amount" -> 500000 [] f = "tenure" -> 36 [] f = "age" -> 30 [] f = "income" -> 600000 [] OTHER -> 1]

EngineResults == {perform_underwriting(Applicant, p) : p \in ServedPredictions}

Next ==
  \/ \E s \in Clients, t \in ServedTexts : Chat(s, t, "scores")
  \/ \E s \in Clients : ChatEmpty(s)
  \/ \E s \in Clients, p \in ServedPredictions : Underwrite(s, p)
  \/ \E s \in Clients : Sales(s)
  \/ \E s \in Clients : Fraud(s)
  \/ \E s \in Clients : Documentation(s)
  \/ \E s \in Clients : Reset(s)
  \/ \E s \in Clients, uw \in EngineResults : UnderwritingCallback(s, uw)
  \/ \E s \in Clients, passed \in BOOLEAN : FraudCallback(s, passed)

Spec == Init /\ [][Next]_vars

TypeOK ==
  /\ variant \in Variants
  /\ user_sessions \subseteq Sids
  /\ \A s \in Sids : app_state[s].stage \in ConversationStage \cup {StrClosed}

\* ------------------------------------------------------------------------
\* The documentation request on any stored state
\* ------------------------------------------------------------------------
\* The states a session record can hold when the request arrives: any stage,
\* accepted or not, any subset of the KYC fields (the address possibly the
\* empty string), priced by underwriting or not.
StoredState(stage, accepted, kyc, address, priced) ==
  [initialize_state EXCEPT
     !.stage = stage,
     !.offer_accepted = accepted,
     !.entities = [f \in Fields |-> IF f \in REQUIRED_FIELDS THEN Applicant[f]
                                    ELSE IF f = "address" THEN address
                                    ELSE IF f \in kyc THEN 1 ELSE None],
     !.missing_fields = {},
     !.missing_kyc_fields = {f \in KYC_FIELDS \ {"address"} : f \notin kyc} \cup (IF address = None THEN {"address"} ELSE {}),
     !.risk_score = IF priced THEN 300 ELSE None,
     !.approval_status = IF priced THEN "True" ELSE "None",
     !.interest_rate = IF priced THEN mock_interest_rate(300) ELSE None,
     !.attempts = 1]

StoredStates ==
  {StoredState(stage, accepted, kyc, address, priced) :
     stage \in ConversationStage, accepted \in BOOLEAN,
     kyc \in SUBSET (KYC_FIELDS \ {"address"}), address \in {None, 0, 1}, priced \in BOOLEAN}

InitDoc ==
  /\ SalesIdle
  /\ SweepIdle
  /\ EngineIdle
  /\ variant \in Variants
  /\ user_sessions = {"s1"}
  /\ app_state \in {[s \in Sids |-> IF s = "s1" THEN st ELSE initialize_state] : st \in StoredStates}
  /\ intent_cache = [a \in Agents |-> EmptyCache]
  /\ cached_by = [a \in Agents |-> [t \in Texts |-> "none"]]
  /\ reply = Reply("none", "none", FALSE, 0, "none")

NextDoc == \E s \in Sids : Documentation(s)

SpecDoc == InitDoc /\ [][NextDoc]_vars

\* ------------------------------------------------------------------------
\* Two sessions served by one front end
\* ------------------------------------------------------------------------
PairTexts == {"arjun 30 salaried 600000 home 500000 36 months", "yes"}

NextPair ==
  \/ \E s \in Sids, t \in PairTexts : Chat(s, t, "scores")
  \/ \E s \in Sids, p \in ServedPredictions : Underwrite(s, p)

SpecPair == Init /\ [][NextPair]_vars

\* Two sessions whose conversations open differently: with a loan request,
\* or with the applicant's details.
ResolveTexts == {"apply for a loan", "arjun 30 salaried 600000 home 500000 36 months", "arjun 70 retired"}

NextResolve == \E s \in Sids, t \in ResolveTexts : Chat(s, t, "scores")

SpecResolve == Init /\ [][NextResolve]_vars

\* The underwriting request of app.py with its fraud screening in place,
\* between the messages of one conversation.
NextScreen ==
  \/ \E s \in Clients, t \in ServedTexts : Chat(s, t, "scores")
  \/ \E s \in Clients, fraud_flag \in FraudFlags : UnderwriteScreened(s, fraud_flag)

SpecScreen == Init /\ [][NextScreen]_vars

\* One conversation while the intent scorer is not loaded or fails on every
\* call: the resolver takes its rule-only path.
FallbackTexts == {"hello", "apply for a loan", "arjun 30 salaried 600000 home 500000 36 months", "arjun 70 retired", "yes", "goodbye"}

FailingScorers == ScorerModes \ {"scores"}

NextFallback == \E s \in Clients, t \in FallbackTexts, scorer \in FailingScorers : Chat(s, t, scorer)

SpecFallback == Init /\ [][NextFallback]_vars

\* ------------------------------------------------------------------------
\* Messages handled in every stage
\* ------------------------------------------------------------------------
\* A session that is new, or that an earlier round has left in any later
\* stage with its required fields stored and a decision priced.
StageStates ==
  {initialize_state}
  \cup {StoredState(stage, FALSE, kyc, address, TRUE) :
          stage \in ConversationStage \ {"GREETING"},
          kyc \in {{}, KYC_FIELDS \ {"address"}}, address \in {None, 1}}

StageTexts == {"apply for a loan", "arjun 70 retired", "yes", "not interested", "reduce the rate", "pan aadhaar 560001 address: mg road", "goodbye"}

InitStage ==
  /\ SalesIdle
  /\ SweepIdle
  /\ EngineIdle
  /\ variant \in Variants
  /\ user_sessions = {"s1"}
  /\ app_state \in {[s \in Sids |-> IF s = "s1" THEN st ELSE initialize_state] : st \in StageStates}
  /\ intent_cache = [a \in Agents |-> EmptyCache]
  /\ cached_by = [a \in Agents |-> [t \in Texts |-> "none"]]
  /\ reply = Reply("none", "none", FALSE, 0, "none")

NextStage == \E s \in Clients, t \in StageTexts : Chat(s, t, "scores")

SpecStage == InitStage /\ [][NextStage]_vars

\* ------------------------------------------------------------------------
\* One application carried through by its worker directives
\* ------------------------------------------------------------------------
\* The engines answer only when the session is in their stage: the
\* underwriting result arrives in UNDERWRITING, the fraud result in
\* FRAUD_CHECK.  The user sends the application details, "yes", and the
\* KYC details; the documentation request may come at any time.
HappyTexts == {"arjun 30 salaried 600000 home 500000 36 months", "yes", "pan aadhaar 560001 address: mg road"}

NextHappy ==
  \/ \E s \in Clients, t \in HappyTexts : Chat(s, t, "scores")
  \/ \E s \in Clients, uw \in EngineResults :
       app_state[s].stage = "UNDERWRITING" /\ UnderwritingCallback(s, uw)
  \/ \E s \in Clients, passed \in BOOLEAN :
       app_state[s].stage = "FRAUD_CHECK" /\ FraudCallback(s, passed)
  \/ \E s \in Clients : Documentation(s)

SpecHappy == Init /\ [][NextHappy]_vars

\* ------------------------------------------------------------------------
\* Concurrent generate_offer calls on one state dictionary
\* ------------------------------------------------------------------------
\* The risk scores underwriting approved the shared state with.
QuotedRisks == {0, 59, 300, 500, 800}

\* The state shared by the callers: an approved application at its offer.
InitRace ==
  /\ SweepIdle
  /\ EngineIdle
  /\ variant = "backend"
  /\ user_sessions = {}
  /\ app_state = [s \in Sids |-> initialize_state]
  /\ intent_cache = [a \in Agents |-> EmptyCache]
  /\ cached_by = [a \in Agents |-> [t \in Texts |-> "none"]]
  /\ reply = Reply("none", "none", FALSE, 0, "none")
  /\ \E r \in QuotedRisks :
       /\ master_agent_state = [StoredState("OFFER", FALSE, {}, None, TRUE) EXCEPT
                                   !.risk_score = r, !.interest_rate = mock_interest_rate(r)]
       /\ quoted = mock_interest_rate(r)
  /\ sales_offer = NoOffer
  /\ sales_thread = [th \in Threads |-> IdleThread]

\* generate_offer up to the rate it will offer: the approval test, the read
\* of the state's interest_rate and the negotiation rule.
GenerateOfferRead(th, negotiation_request) ==
  /\ sales_thread[th].pc = "idle"
  /\ master_agent_state.approval_status = "True"
  /\ sales_thread' = [sales_thread EXCEPT ![th] =
        [pc |-> "computed", negotiation_request |-> negotiation_request,
         interest_rate |-> offered_rate(master_agent_state.interest_rate, negotiation_request)]]
  /\ UNCHANGED << engineVars, frontVars, sweepVars, master_agent_state, quoted, sales_offer >>

\* generate_offer from the EMI to its return: the write of the negotiated
\* rate into the state.
GenerateOfferWrite(th) ==
  /\ sales_thread[th].pc = "computed"
  /\ master_agent_state' = IF sales_thread[th].negotiation_request
                             THEN [master_agent_state EXCEPT !.interest_rate = sales_thread[th].interest_rate]
                             ELSE master_agent_state
  /\ sales_thread' = [sales_thread EXCEPT ![th].pc = "returned"]
  /\ UNCHANGED << engineVars, frontVars, sweepVars, quoted, sales_offer >>

NextRace ==
  \/ \E th \in Threads, negotiation_request \in BOOLEAN : GenerateOfferRead(th, negotiation_request)
  \/ \E th \in Threads : GenerateOfferWrite(th)

SpecRace == InitRace /\ [][NextRace]_vars

\* The state after the given threads' calls ran one after the other.
RECURSIVE Sequentially(_, _)
Sequentially(state, T) ==
  IF T = {} THEN state
  ELSE LET th == CHOOSE x \in T : TRUE
       IN  Sequentially(generate_offer(state, sales_thread[th].negotiation_request).state, T \ {th})

\* ------------------------------------------------------------------------
\* generate_offer calls one after the other
\* ------------------------------------------------------------------------
\* The risk scores an approval carries, in steps of RiskStep thousandths, and
\* the amounts applied for.
RiskStep == 50

ApprovedRisks == {r \in 0..RISK_THRESHOLD_REJECT : r % RiskStep = 0}

Principals == {500000, 80000}

\* The amounts a rejected application asked for: those, and the two around
\* the amount whose 60 per cent is the 50,000 floor.
DeclinedPrincipals == Principals \cup {83333, 83334}

\* The states underwriting leaves for the sales agent: approved with the
\* rate of the risk score, or rejected by a hard gate.
UnderwrittenStates ==
  {[StoredState("OFFER", FALSE, {}, None, TRUE) EXCEPT
      !.entities["loan_amount"] = p, !.risk_score = r, !.interest_rate = mock_interest_rate(r)]
     : p \in Principals, r \in ApprovedRisks}
  \cup
  {[StoredState("REJECTION_COUNSELING", FALSE, {}, None, TRUE) EXCEPT
      !.entities["loan_amount"] = p, !.risk_score = 1000, !.approval_status = "False",
      !.interest_rate = mock_interest_rate(1000)]
     : p \in DeclinedPrincipals}

InitSales ==
  /\ SweepIdle
  /\ EngineIdle
  /\ variant = "backend"
  /\ user_sessions = {}
  /\ app_state = [s \in Sids |-> initialize_state]
  /\ intent_cache = [a \in Agents |-> EmptyCache]
  /\ cached_by = [a \in Agents |-> [t \in Texts |-> "none"]]
  /\ reply = Reply("none", "none", FALSE, 0, "none")
  /\ master_agent_state \in UnderwrittenStates
  /\ quoted = master_agent_state.interest_rate
  /\ sales_thread = [th \in Threads |-> IdleThread]
  /\ sales_offer = NoOffer

\* One call of generate_offer on the state.
GenerateOffer(negotiation_request) ==
  \E o \in {generate_offer(master_agent_state, negotiation_request)} :
      /\ master_agent_state' = o.state
      /\ sales_offer' = [called |-> TRUE, negotiation_request |-> negotiation_request, raises |-> o.raises,
                         type |-> o.type, interest_rate |-> o.interest_rate,
                         new_amount |-> o.new_amount, action |-> o.action, emi |-> o.emi]
      /\ UNCHANGED << engineVars, frontVars, sweepVars, sales_thread, quoted >>

NextSales == \E negotiation_request \in BOOLEAN : GenerateOffer(negotiation_request)

SpecSales == InitSales /\ [][NextSales]_vars

\* ------------------------------------------------------------------------
\* perform_underwriting on any application
\* ------------------------------------------------------------------------
\* The values the gated fields take (unset, and both sides of every policy
\* bound) and the outcomes of the risk model (a score in thousandths, or an
\* exception).
Ages == {None, 20, 21, 30, 60, 61, 70}

Incomes == {None, 299999, 300000, 600000}

LoanAmounts == {None, 49999, 50000, 500000, 2000000, 2000001}

ModelOutputs == {[raises |-> FALSE, p |-> x] : x \in {0, 300, 800, 801, 900, 1000}} \cup {[raises |-> TRUE, p |-> 0]}

InitUnderwriting ==
  /\ SalesIdle
  /\ SweepIdle
  /\ FraudIdle
  /\ CalcIdle
  /\ variant = "backend"
  /\ user_sessions = {}
  /\ app_state = [s \in Sids |-> initialize_state]
  /\ intent_cache = [a \in Agents |-> EmptyCache]
  /\ cached_by = [a \in Agents |-> [t \in Texts |-> "none"]]
  /\ reply = Reply("none", "none", FALSE, 0, "none")
  /\ application \in {[Applicant EXCEPT !["age"] = a, !["income"] = i, !["loan_amount"] = l]
                        : a \in Ages, i \in Incomes, l \in LoanAmounts}
  /\ underwriting_result = NoDecision

\* One call of perform_underwriting on the application.
PerformUnderwriting(prediction) ==
  LET u == perform_underwriting(application, prediction)
  IN  /\ underwriting_result' = [called |-> TRUE, raises |-> u.raises, approval_status |-> u.approval_status,
                                 risk_score |-> u.risk_score, interest_rate |-> u.interest_rate,
                                 reason |-> u.reason, model_called |-> u.model_called,
                                 model_output |-> prediction]
      /\ UNCHANGED << frontVars, salesVars, sweepVars, calcVars, application, cust_data, today, fraud_result >>

NextUnderwriting == \E prediction \in ModelOutputs : PerformUnderwriting(prediction)

SpecUnderwriting == InitUnderwriting /\ [][NextUnderwriting]_vars

\* The hard gates an application fails, by the policy bounds.
AgeGateFails(e) == e["age"] # None /\ (e["age"] < 21 \/ e["age"] > 60)

IncomeGateFails(e) == e["income"] # None /\ e["income"] < 300000

LoanGateFails(e) == e["loan_amount"] # None /\ (e["loan_amount"] < 50000 \/ e["loan_amount"] > 2000000)

\* ------------------------------------------------------------------------
\* fraud_score on any customer record
\* ------------------------------------------------------------------------
\* The name lists, dates of birth, incomes and evaluation days drawn, and
\* the values token_set_ratio takes (around the 0.8 flag threshold).
NameLists ==
  {NameList("absent", << >>), NameList("None", << >>)}
  \cup {NameList("list", l) : l \in {<< >>, << "Riya Sharma" >>, << NoName, "  " >>, << "Riya Sharma", "" >>,
                                     << "Riya Sharma", "riya sharma " >>, << "Riya Sharma", "Amit Verma" >>,
                                     << "Riya Sharma", "Riya K Sharma", "Sharma Riya" >>}}

Days == {[y |-> 2026, m |-> 11, d |-> 6]}

BirthYears == {2026 - a : a \in {15, 17, 18, 19, 20, 21, 22, 30, 59, 60, 80, 81, 82}}

Dobs ==
  {Dob("absent", 0, 0, 0), Dob("None", 0, 0, 0), Dob("blank", 0, 0, 0), Dob("junk", 0, 0, 0)}
  \cup {Dob(k, y, md[1], md[2]) : k \in {"iso", "dmy"}, y \in BirthYears, md \in {<<11, 6>>, <<11, 7>>}}

DeclaredIncomes == {Absent, None, -5, 0, 1, 9999, 10000, 10001, 50000, 9999999, 10000000, 10000001}

RatioValues == {0, 7999, 8000, ONE}

\* The pairs of the longest list drawn.
NamePairs == PairsOf(3)

InitFraud ==
  /\ SalesIdle
  /\ SweepIdle
  /\ CalcIdle
  /\ variant = "root"
  /\ user_sessions = {}
  /\ app_state = [s \in Sids |-> initialize_state]
  /\ intent_cache = [a \in Agents |-> EmptyCache]
  /\ cached_by = [a \in Agents |-> [t \in Texts |-> "none"]]
  /\ reply = Reply("none", "none", FALSE, 0, "none")
  /\ application = [f \in Fields |-> None]
  /\ underwriting_result = NoDecision
  /\ cust_data \in [name_list : NameLists, dob : Dobs, declared_income : DeclaredIncomes]
  /\ today \in Days
  /\ fraud_result = NoFraudScore

\* One call of fraud_score on the customer record.
FraudScore(ratio) ==
  /\ fraud_result' = fraud_score(cust_data, today, ratio)
  /\ UNCHANGED << frontVars, salesVars, sweepVars, calcVars, application, underwriting_result, cust_data, today >>

NextFraud == \E ratio \in [NamePairs -> RatioValues] : FraudScore(ratio)

SpecFraud == InitFraud /\ [][NextFraud]_vars

\* ------------------------------------------------------------------------
\* The two EMI functions on any principal, rate and tenure
\* ------------------------------------------------------------------------
\* The amounts, annual rates (hundredths of a per cent) and tenures (months)
\* drawn.
EmiPrincipals == {1000000, 500000, 300000, 50000}

EmiRates == {0, 950, 1200, 1630, 1800}

EmiTenures == {0, 12, 36, 60}

InitEmi ==
  /\ SalesIdle
  /\ SweepIdle
  /\ FraudIdle
  /\ variant = "backend"
  /\ user_sessions = {}
  /\ app_state = [s \in Sids |-> initialize_state]
  /\ intent_cache = [a \in Agents |-> EmptyCache]
  /\ cached_by = [a \in Agents |-> [t \in Texts |-> "none"]]
  /\ reply = Reply("none", "none", FALSE, 0, "none")
  /\ application = [f \in Fields |-> None]
  /\ underwriting_result = NoDecision
  /\ emi_args \in [principal : EmiPrincipals, rate : EmiRates, tenure_months : EmiTenures]
  /\ emi_result = NoEmiCall
  /\ RulesIdle
  /\ RouteIdle

\* One call of SalesAgent._calculate_emi.
SalesAgentCalculateEmi ==
  /\ emi_result' = [by |-> "sales_agent",
                    emi |-> SalesAgent_calculate_emi(emi_args.principal, emi_args.rate, emi_args.tenure_months)]
  /\ UNCHANGED << frontVars, salesVars, sweepVars, application, underwriting_result, cust_data, today,
                  fraud_result, emi_args, rule_args, rule_result, route_args, route_result >>

\* One call of calculate_emi of app.py.
CalculateEmi ==
  /\ emi_result' = [by |-> "app",
                    emi |-> calculate_emi(emi_args.principal, emi_args.rate, emi_args.tenure_months)]
  /\ UNCHANGED << frontVars, salesVars, sweepVars, application, underwriting_result, cust_data, today,
                  fraud_result, emi_args, rule_args, rule_result, route_args, route_result >>

NextEmi == SalesAgentCalculateEmi \/ CalculateEmi

SpecEmi == InitEmi /\ [][NextEmi]_vars

\* ------------------------------------------------------------------------
\* The rule pass on any text, selected intent and confidence
\* ------------------------------------------------------------------------
\* Texts with and without an exit keyword, a question pattern, an
\* information keyword and an extractable value, and confidences on both
\* sides of the 0.4 threshold.
RuleTexts == {"hello", "goodbye", "my address: mg road, goodbye", "address: mg road, bye",
              "how about address: mg road", "what can you do", "what is the interest rate"}

Confidences == {3000, 4000, 9500}

InitRules ==
  /\ SalesIdle
  /\ SweepIdle
  /\ FraudIdle
  /\ variant = "backend"
  /\ user_sessions = {}
  /\ app_state = [s \in Sids |-> initialize_state]
  /\ intent_cache = [a \in Agents |-> EmptyCache]
  /\ cached_by = [a \in Agents |-> [t \in Texts |-> "none"]]
  /\ reply = Reply("none", "none", FALSE, 0, "none")
  /\ application = [f \in Fields |-> None]
  /\ underwriting_result = NoDecision
  /\ EmiIdle
  /\ RouteIdle
  /\ rule_args \in [text : RuleTexts, ai_intent : TemplateIntents, confidence : Confidences]
  /\ rule_result = NoRuleCall

\* One call of _validate_intent_with_rules.
ValidateIntentWithRules ==
  LET validated == validate_intent_with_rules(rule_args.text, rule_args.ai_intent, rule_args.confidence)
  IN  /\ rule_result' = [called |-> TRUE, intent |-> validated.intent, confidence |-> validated.confidence]
      /\ UNCHANGED << frontVars, salesVars, sweepVars, application, underwriting_result, cust_data, today,
                      fraud_result, emi_args, emi_result, rule_args, route_args, route_result >>

NextRules == ValidateIntentWithRules

SpecRules == InitRules /\ [][NextRules]_vars

\* ------------------------------------------------------------------------
\* route_to_worker in any stage, for any intent
\* ------------------------------------------------------------------------
\* The states routed: every stage a state can hold, with nothing or
\* everything collected.
RoutedStates ==
  {[st EXCEPT !.stage = stage] : st \in {initialize_state, StoredState("OFFER", TRUE, KYC_FIELDS, 1, TRUE)},
                                 stage \in ConversationStage \cup {StrClosed}}

InitRoute ==
  /\ SalesIdle
  /\ SweepIdle
  /\ FraudIdle
  /\ variant = "backend"
  /\ user_sessions = {}
  /\ app_state = [s \in Sids |-> initialize_state]
  /\ intent_cache = [a \in Agents |-> EmptyCache]
  /\ cached_by = [a \in Agents |-> [t \in Texts |-> "none"]]
  /\ reply = Reply("none", "none", FALSE, 0, "none")
  /\ application = [f \in Fields |-> None]
  /\ underwriting_result = NoDecision
  /\ EmiIdle
  /\ RulesIdle
  /\ route_args \in [state : RoutedStates, intent : IntentType]
  /\ route_result = NoRouteCall

\* One call of route_to_worker: it reads the stage and returns a worker.
RouteToWorker ==
  /\ route_result' = [called |-> TRUE, worker |-> route_to_worker(route_args.state, route_args.intent)]
  /\ UNCHANGED << frontVars, salesVars, sweepVars, application, underwriting_result, cust_data, today,
                  fraud_result, emi_args, emi_result, rule_args, rule_result, route_args >>

NextRoute == RouteToWorker

SpecRoute == InitRoute /\ [][NextRoute]_vars

\* ------------------------------------------------------------------------
\* The session store of app.py and its cleanup thread
\* ------------------------------------------------------------------------
SESSION_TIMEOUT == 1800

\* The clock advances in steps of TimeStep seconds up to MaxTime; a session
\* dictionary counts at most MaxInteractions requests.
TimeStep == 900

MaxTime == 2700

MaxInteractions == 2

InitEvict ==
  /\ SalesIdle
  /\ SweepIdle
  /\ EngineIdle
  /\ variant = "root"
  /\ user_sessions = {}
  /\ app_state = [s \in Sids |-> initialize_state]
  /\ intent_cache = [a \in Agents |-> EmptyCache]
  /\ cached_by = [a \in Agents |-> [t \in Texts |-> "none"]]
  /\ reply = Reply("none", "none", FALSE, 0, "none")

\* Time passes.  A request is short against TimeStep: the clock stands
\* while one is in flight.
Tick ==
  /\ now + TimeStep <= MaxTime
  /\ \A th \in Threads : requests[th].pc = "idle"
  /\ now' = now + TimeStep
  /\ UNCHANGED << engineVars, frontVars, salesVars, session_obj, heap, sweeper, requests >>

\* cleanup_sessions wakes from its sleep and takes the time.
SweepWake ==
  /\ sweeper.pc = "sleeping"
  /\ sweeper' = [pc |-> "scanning", current_time |-> now, size |-> Cardinality(user_sessions),
                  seen |-> {}, expired_sessions |-> {}]
  /\ UNCHANGED << engineVars, frontVars, salesVars, now, session_obj, heap, requests >>

\* One iteration of the loop over user_sessions.items(); the dictionary
\* iterator raises RuntimeError when the dictionary changed size, which ends
\* the thread.
SweepScan ==
  /\ sweeper.pc = "scanning"
  /\ IF Cardinality(user_sessions) # sweeper.size
       THEN sweeper' = [sweeper EXCEPT !.pc = "crashed"]
     ELSE IF user_sessions \subseteq sweeper.seen
       THEN sweeper' = [sweeper EXCEPT !.pc = "deleting"]
     ELSE \E s \in user_sessions \ sweeper.seen :
            sweeper' = [sweeper EXCEPT
              !.seen = @ \cup {s},
              !.expired_sessions =
                 IF sweeper.current_time - heap[session_obj[s]].last_activity > SESSION_TIMEOUT
                   THEN @ \cup {s} ELSE @]
  /\ UNCHANGED << engineVars, frontVars, salesVars, now, session_obj, heap, requests >>

\* One iteration of the loop over expired_sessions: del user_sessions[id].
SweepDelete ==
  /\ sweeper.pc = "deleting"
  /\ IF sweeper.expired_sessions = {}
       THEN /\ sweeper' = [sweeper EXCEPT !.pc = "sleeping"]
            /\ UNCHANGED << user_sessions, session_obj >>
     ELSE \E s \in sweeper.expired_sessions :
            IF s \in user_sessions
              THEN /\ user_sessions' = user_sessions \ {s}
                   /\ session_obj' = [session_obj EXCEPT ![s] = NoObj]
                   /\ sweeper' = [sweeper EXCEPT !.expired_sessions = @ \ {s}]
              ELSE /\ sweeper' = [sweeper EXCEPT !.pc = "crashed"]
                   /\ UNCHANGED << user_sessions, session_obj >>
  /\ UNCHANGED << engineVars, variant, app_state, intent_cache, cached_by, reply, salesVars, now, heap, requests >>

\* chat up to the session it works on: initialize_user_session creates the
\* dictionary when the identifier is unknown, stamps last_activity and
\* returns the stored dictionary.
ChatLookup(th, s) ==
  /\ requests[th].pc = "idle"
  /\ IF s \in user_sessions
       THEN /\ heap[session_obj[s]].interaction_count < MaxInteractions
            /\ heap' = [heap EXCEPT ![session_obj[s]].last_activity = now]
            /\ requests' = [requests EXCEPT ![th] = [pc |-> "handling", sid |-> s, session |-> session_obj[s]]]
            /\ UNCHANGED << user_sessions, session_obj >>
     ELSE /\ \E o \in ObjIds : ~heap[o].allocated
          /\ LET o == CHOOSE x \in ObjIds : ~heap[x].allocated /\ \A y \in ObjIds : ~heap[y].allocated => x <= y
             IN  /\ heap' = [heap EXCEPT ![o] = [allocated |-> TRUE, last_activity |-> now, interaction_count |-> 0]]
                 /\ session_obj' = [session_obj EXCEPT ![s] = o]
                 /\ user_sessions' = user_sessions \cup {s}
                 /\ requests' = [requests EXCEPT ![th] = [pc |-> "handling", sid |-> s, session |-> o]]
  /\ UNCHANGED << engineVars, variant, app_state, intent_cache, cached_by, reply, salesVars, now, sweeper >>

\* chat from there on: the request counts itself in the dictionary it
\* holds, runs handle on that dictionary's agent and stores last_state in it.
ChatProcess(th) ==
  /\ requests[th].pc = "handling"
  /\ heap' = [heap EXCEPT ![requests[th].session].interaction_count = Min(@ + 1, MaxInteractions)]
  /\ requests' = [requests EXCEPT ![th] = NoRequest]
  /\ UNCHANGED << engineVars, frontVars, salesVars, now, session_obj, sweeper >>

NextEvict ==
  \/ Tick
  \/ SweepWake
  \/ SweepScan
  \/ SweepDelete
  \/ \E th \in Threads, s \in Sids : ChatLookup(th, s)
  \/ \E th \in Threads : ChatProcess(th)

SpecEvict == InitEvict /\ [][NextEvict]_vars

\* The session dictionary o is the one stored under some identifier.
Stored(o) == \E s \in user_sessions : session_obj[s] = o

\* The cache a request of session s is resolved against, and that cache with
\* only the entries requests of s itself have stored.
CacheFor(s) ==
  IF variant = "root" /\ s \notin user_sessions THEN EmptyCache ELSE intent_cache[AgentOf(variant, s)]

OwnCache(s) ==
  [t \in Texts |-> IF cached_by[AgentOf(variant, s)][t] = s THEN CacheFor(s)[t] ELSE NoEntry]

\* ------------------------------------------------------------------------
\* Properties
\* ------------------------------------------------------------------------
MutatingOps == {"underwrite", "sales", "fraud", "documentation", "reset"}

GatedStages == {"KYC", "FRAUD_CHECK", "DOCUMENTATION"}

\* C1: once a session's stage is CLOSED, no request or callback other than
\* a reset changes it, and a reset leaves the fresh initial state.
C1_ClosedIsTerminal ==
  [][\A s \in Sids :
       /\ (app_state[s].stage = "CLOSED" /\ ~(reply'.op = "reset" /\ reply'.sid = s))
            => app_state'[s].stage = "CLOSED"
       /\ (reply'.op = "reset" /\ reply'.sid = s /\ reply'.found)
            => app_state'[s] = initialize_state]_vars

\* C2: in every state whose stage is KYC, FRAUD_CHECK or DOCUMENTATION the
\* offer has been accepted (offer_accepted is true).
C2_GatedStagesNeedAcceptance ==
  \A s \in Sids : app_state[s].stage \in GatedStages => app_state[s].offer_accepted

\* C3: the underwriting callback changes the stage only from UNDERWRITING
\* (to OFFER or REJECTION_COUNSELING), the fraud callback only from
\* FRAUD_CHECK (to DOCUMENTATION or CLOSED); in any other stage they leave
\* the stage as it is.
C3_CallbacksFollowEdges ==
  [][\A s \in Sids :
       /\ (reply'.op \in {"underwrite", "set_underwriting_result"} /\ reply'.sid = s)
            => IF app_state[s].stage = "UNDERWRITING"
                 THEN app_state'[s].stage \in {"UNDERWRITING", "OFFER", "REJECTION_COUNSELING"}
                 ELSE app_state'[s].stage = app_state[s].stage
       /\ (reply'.op \in {"fraud", "set_fraud_check_result"} /\ reply'.sid = s)
            => IF app_state[s].stage = "FRAUD_CHECK"
                 THEN app_state'[s].stage \in {"FRAUD_CHECK", "DOCUMENTATION", "CLOSED"}
                 ELSE app_state'[s].stage = app_state[s].stage]_vars

\* C4: missing_fields is exactly the set of required fields whose entity is
\* unset, and missing_kyc_fields exactly the set of KYC fields whose entity
\* is unset.
C4_MissingFieldsExact ==
  \A s \in Sids :
    /\ app_state[s].missing_fields = {f \in REQUIRED_FIELDS : app_state[s].entities[f] = None}
    /\ app_state[s].missing_kyc_fields = {f \in KYC_FIELDS : app_state[s].entities[f] = None}

\* C4 witness: a session that has handled messages holds some required
\* fields but not all of them, and all KYC fields.
C4_Witness ==
  \E s \in user_sessions :
    /\ app_state[s].attempts > 1
    /\ app_state[s].missing_fields \notin {{}, REQUIRED_FIELDS}
    /\ app_state[s].missing_kyc_fields = {}
    /\ \A f \in KYC_FIELDS : app_state[s].entities[f] # None

\* C5: a documentation request on an existing session whose offer_accepted
\* is false returns the precondition-not-met error and changes no
\* application state.
C5_DocumentationNeedsAcceptance ==
  [][(reply'.op = "documentation" /\ reply'.found /\ ~app_state[reply'.sid].offer_accepted)
       => (reply'.error \in PreconditionNotMetErrors /\ reply'.status = 400 /\ app_state' = app_state)]_vars

\* C5 witness: the request was refused for a session that holds every KYC
\* field, an amount and a rate (nothing but acceptance is missing).
C5_Witness ==
  /\ reply.op = "documentation" /\ reply.found
  /\ reply.error \in PreconditionNotMetErrors
  /\ ~app_state[reply.sid].offer_accepted
  /\ app_state[reply.sid].missing_kyc_fields = {}
  /\ app_state[reply.sid].interest_rate # None
  /\ app_state[reply.sid].entities["loan_amount"] # None

C7_UnknownSessionRejected ==
  [][(reply'.op \in MutatingOps /\ ~reply'.found)
       => /\ reply'.error \in SessionNotFoundErrors
          /\ user_sessions' = user_sessions
          /\ app_state' = app_state]_vars

\* C8: requests of different sessions are independent: a chat request
\* changes the application state of no other session, and in every state
\* the answer a session gets to a text is the answer it would get if no
\* other session had ever been served.
C8_SessionsIndependent ==
  [][/\ reply'.op = "chat" => \A b \in Sids \ {reply'.sid} : app_state'[b] = app_state[b]
     /\ \A s \in Sids, t \in PairTexts :
          LET served == handle(app_state'[s], CacheFor(s)', t, "scores")
              alone == handle(app_state'[s], OwnCache(s)', t, "scores")
          IN  served.result = alone.result /\ served.state = alone.state]_vars

\* C9: negotiation calls on one session are serialized: when concurrent
\* generate_offer calls have all returned, the state's interest_rate is the
\* rate the same calls leave when run one after the other (each negotiation
\* lowers the rate once; no update is lost).
C9_NegotiationsSerialized ==
  (\A th \in Threads : sales_thread[th].pc = "returned")
    => master_agent_state.interest_rate
         = Sequentially([master_agent_state EXCEPT !.interest_rate = quoted], Threads).interest_rate

\* C10: the cleanup sweep deletes no session while a request on it is in
\* flight (the dictionary a request holds stays the one stored under its
\* identifier), and no request changes a session dictionary that is no
\* longer in the store.
C10_NoEvictionInFlight ==
  [][/\ \A th \in Threads : requests'[th].pc = "handling" =>
          /\ requests'[th].sid \in user_sessions'
          /\ session_obj'[requests'[th].sid] = requests'[th].session
     /\ \A o \in ObjIds : heap'[o].interaction_count # heap[o].interaction_count => Stored(o)]_vars

\* C11: no error path leaves the application state partly updated: when a
\* chat request ends in handle's error result (or in an exception), or an
\* engine endpoint answers with an error status, the application state of
\* every session is what it was before the request.
C11_ErrorsLeaveStateAlone ==
  [][(/\ reply'.op \in {"chat", "underwrite", "sales", "fraud", "documentation"}
      /\ (reply'.result.kind \in {"error", "raises"} \/ reply'.status >= 400))
       => app_state' = app_state]_vars

C13_GatesShortCircuit ==
  (underwriting_result.called
     /\ (AgeGateFails(application) \/ IncomeGateFails(application) \/ LoanGateFails(application)))
    => /\ ~underwriting_result.model_called
       /\ ~underwriting_result.raises => (~underwriting_result.approval_status /\ underwriting_result.interest_rate = None)

\* C13 witness: an applicant aged 70 with passing income and amount was
\* rejected without a model call.
C13_Witness ==
  /\ underwriting_result.called /\ ~underwriting_result.raises
  /\ application["age"] = 70 /\ application["income"] = 600000 /\ application["loan_amount"] = 500000
  /\ ~underwriting_result.approval_status
  /\ ~underwriting_result.model_called

\* C14: the gates are tested in the order age, income, loan amount and a
\* rejection carries the reason of the first gate that fails.
C14_FirstFailingGateNamed ==
  (underwriting_result.called /\ ~underwriting_result.raises
     /\ (AgeGateFails(application) \/ IncomeGateFails(application) \/ LoanGateFails(application)))
    => underwriting_result.reason = (IF AgeGateFails(application) THEN "age"
                                     ELSE IF IncomeGateFails(application) THEN "income"
                                     ELSE "loan_amount")

\* C14 witness: all three gates fail and the rejection names the age policy.
C14_Witness ==
  /\ underwriting_result.called /\ ~underwriting_result.raises
  /\ AgeGateFails(application) /\ IncomeGateFails(application) /\ LoanGateFails(application)
  /\ underwriting_result.reason = "age"

\* C15: a rejection the model's score caused returns the observed score,
\* and only a hard-gate rejection returns the sentinel 1.0.
C15_ScoredRejectionKeepsScore ==
  (underwriting_result.called /\ ~underwriting_result.raises /\ ~underwriting_result.approval_status)
    => /\ underwriting_result.model_called => underwriting_result.risk_score = underwriting_result.model_output.p
       /\ ~underwriting_result.model_called => underwriting_result.risk_score = 1000

C17_CompositeIsMeanInUnitInterval ==
  (fraud_result.called /\ ~fraud_result.raises)
    => /\ 3 * fraud_result.num * fraud_result.name_score.den
            = fraud_result.den * (fraud_result.name_score.num
                                    + (fraud_result.age_score + fraud_result.income_score) * fraud_result.name_score.den)
       /\ 0 <= fraud_result.num /\ fraud_result.num <= ONE * fraud_result.den
       /\ Len(name_list_cleaned(cust_data.name_list.names)) < 2
            => fraud_result.name_score.num = ONE * fraud_result.name_score.den

\* C17 witness: one name and a blank were supplied, the name sub-score is
\* 1.0 and the composite lies strictly between 0 and 1.
C17_Witness ==
  /\ fraud_result.called /\ ~fraud_result.raises
  /\ cust_data.name_list.names = << "Riya Sharma", "" >>
  /\ fraud_result.name_score.num = ONE /\ fraud_result.name_score.den = 1
  /\ 0 < fraud_result.num /\ fraud_result.num < ONE * fraud_result.den

\* The applicant's age in whole years on the day of evaluation: the number
\* of birthdays that have come, the day itself included.
WholeYears ==
  LET Reached(a) == \/ cust_data.dob.y + a < today.y
                    \/ /\ cust_data.dob.y + a = today.y
                       /\ \/ cust_data.dob.m < today.m
                          \/ (cust_data.dob.m = today.m /\ cust_data.dob.d <= today.d)
  IN  Cardinality({a \in 1..150 : Reached(a)})

\* C18: the age sub-score is 0 for a missing or unparsable date of birth
\* and for an age outside [18,80], 0.5 for ages 18 to 21 and 60 to 80, and
\* 1 for ages 22 to 59.
C18_AgeScoreBands ==
  (fraud_result.called /\ ~fraud_result.raises)
    => fraud_result.age_score
         = (IF cust_data.dob.kind \in {"None", "blank", "junk"} THEN 0
            ELSE IF WholeYears < 18 \/ WholeYears > 80 THEN 0
            ELSE IF WholeYears <= 21 \/ WholeYears >= 60 THEN 5000
            ELSE 10000)

\* C18 witness: an applicant who turns 19 on the day of evaluation scores
\* 0.5.
C18_Witness ==
  /\ fraud_result.called /\ ~fraud_result.raises
  /\ cust_data.dob.kind = "dmy" /\ cust_data.dob.y = today.y - 19
  /\ cust_data.dob.m = today.m /\ cust_data.dob.d = today.d
  /\ fraud_result.age_score = 5000

\* C19: the income sub-score is 0 with flag HIGH for an absent income or one
\* of at most 0; 0.3 with flag MEDIUM for a positive income of at most
\* 10,000 or at least 10,000,000; 1 with flag LOW in between.
C19_IncomeScoreBands ==
  (fraud_result.called /\ ~fraud_result.raises)
    => LET income == cust_data.declared_income
           expected == IF income = None \/ income <= 0 THEN << 0, "HIGH" >>
                       ELSE IF income <= 10000 \/ income >= 10000000 THEN << 3000, "MEDIUM" >>
                       ELSE << 10000, "LOW" >>
       IN  << fraud_result.income_score, fraud_result.income_flag >> = expected

\* C20: with a declared income of 0 the income sub-score is 0 and the
\* composite score is at most 0.34, whatever the name and age sub-scores.
C20_ZeroIncomeCapsComposite ==
  (fraud_result.called /\ ~fraud_result.raises /\ cust_data.declared_income = 0)
    => /\ fraud_result.income_score = 0
       /\ 100 * fraud_result.num <= 34 * ONE * fraud_result.den

\* C20 as amended: with a declared income of 0 the income sub-score is 0 and
\* the composite score is at most 2/3.
C20_ZeroIncomeCapsCompositeAtTwoThirds ==
  (fraud_result.called /\ ~fraud_result.raises /\ cust_data.declared_income = 0)
    => /\ fraud_result.income_score = 0
       /\ 3 * fraud_result.num <= 2 * ONE * fraud_result.den

\* C20 witness: income 0 with perfect name and age sub-scores gives exactly
\* 2/3.
C20_Witness ==
  /\ fraud_result.called /\ ~fraud_result.raises /\ cust_data.declared_income = 0
  /\ fraud_result.name_score.num = ONE * fraud_result.name_score.den
  /\ fraud_result.age_score = ONE
  /\ 3 * fraud_result.num = 2 * ONE * fraud_result.den

\* C21: fraud_score never raises; a name list, date of birth or declared
\* income that is missing (key absent or value None) gives its sub-score the
\* worst value, 0, and a composite score is still returned.
C21_FraudNeverRaises ==
  fraud_result.called
    => /\ ~fraud_result.raises
       /\ cust_data.name_list.kind \in {"absent", "None"} => fraud_result.name_score.num = 0
       /\ cust_data.dob.kind \in {"absent", "None"} => fraud_result.age_score = 0
       /\ cust_data.declared_income \in {Absent, None} => fraud_result.income_score = 0

\* C22: for an application that is not approved generate_offer takes the
\* alternative principal floor(0.6 * principal); below 50,000 it returns the
\* terminal decline (rejected_final, end_session, no EMI computed), otherwise
\* the reduced alternative for that principal; 80,000 gives 48,000 and a
\* terminal decline.
C22_RejectionCounselingOffer ==
  (sales_offer.called /\ ~sales_offer.raises /\ master_agent_state.approval_status # "True")
    => LET principal == master_agent_state.entities["loan_amount"]
       IN  /\ 6 * principal < 10 * 50000
             => /\ sales_offer.type = "rejected_final" /\ sales_offer.action = "end_session"
                /\ ~sales_offer.emi.computed /\ sales_offer.new_amount = None
           /\ 6 * principal >= 10 * 50000
             => /\ sales_offer.type = "rejected_alternative" /\ sales_offer.action = "wait_for_offer_decision"
                /\ 10 * sales_offer.new_amount <= 6 * principal
                /\ 6 * principal < 10 * (sales_offer.new_amount + 1)
                /\ sales_offer.emi.computed
           /\ principal = 80000 => sales_offer.type = "rejected_final"

\* C22 witness: a rejected application for 80,000 got the terminal decline,
\* with no EMI computed.
C22_Witness ==
  /\ sales_offer.called /\ ~sales_offer.raises /\ master_agent_state.approval_status = "False"
  /\ master_agent_state.entities["loan_amount"] = 80000
  /\ sales_offer.type = "rejected_final" /\ sales_offer.action = "end_session"
  /\ ~sales_offer.emi.computed

\* C23: for a tenure of at least one month each EMI function returns, from
\* the principal, the annual rate and the tenure alone, the closed-form
\* amortisation value P r (1+r)^n / ((1+r)^n - 1) with r = rate / 12 / 100 to
\* within the rounding (half a rupee), and P / n when the rate is 0;
\* 1,000,000 at 12 per cent over 60 months gives 22,244.
C23_EmiIsClosedForm ==
  (emi_result.by # "none" /\ emi_args.tenure_months > 0)
    => LET P == emi_args.principal
           n == emi_args.tenure_months
           emi == emi_result.emi
           grown == BigPow(120000 + emi_args.rate, n)
           closed_num == BigMul(BigOf(P * emi_args.rate), grown)
           closed_den == BigTimes(BigSub(grown, BigPow(120000, n)), 120000)
       IN  /\ ~emi.raises
           /\ emi_args.rate = 0 => emi.num * n = P * emi.den
           /\ emi_args.rate # 0
                => /\ BigCmp(BigMul(closed_den, BigOf(2 * emi.num - emi.den)),
                             BigMul(closed_num, BigOf(2 * emi.den))) <= 0
                   /\ BigCmp(BigMul(closed_num, BigOf(2 * emi.den)),
                             BigMul(closed_den, BigOf(2 * emi.num + emi.den))) <= 0
           /\ (P = 1000000 /\ emi_args.rate = 1200 /\ n = 60)
                => (22244 * emi.den <= emi.num /\ emi.num < 22245 * emi.den)

\* C24: the rule pass puts the exit keywords first, the question patterns
\* second and the low-confidence fallback last: a text with an exit keyword
\* resolves to EXIT whatever the confidence and whether or not a value can be
\* extracted from it, and a text with a question pattern and no exit keyword
\* resolves to RATE_INQUIRY or HELP_GENERAL.
C24_ExitThenQuestionThenFallback ==
  rule_result.called
    => LET kw == Keywords(rule_args.text)
       IN  /\ "exit_kw" \in kw => rule_result.intent = "EXIT"
           /\ ("exit_kw" \notin kw /\ "question" \in kw)
                => rule_result.intent = (IF "rate_kw" \in kw THEN "RATE_INQUIRY" ELSE "HELP_GENERAL")

\* C25: intent resolution is deterministic in (text, stage): whenever two
\* sessions are in the same stage, a text resolved for the one and for the
\* other with the same scorer output gives the same (intent, confidence),
\* whatever the two conversations were before.
C25_ResolutionDeterministic ==
  \A t \in ResolveTexts :
    app_state["s1"].stage = app_state["s2"].stage
      => detect_intent(app_state["s1"], CacheFor("s1"), t, "scores").res
           = detect_intent(app_state["s2"], CacheFor("s2"), t, "scores").res

\* What detect_intent returns for a text in a stage when nothing is cached.
UncachedResolution(stage, t) ==
  detect_intent([initialize_state EXCEPT !.stage = stage], EmptyCache, t, "scores").res

\* C26: boosting is not cached across stages: when a chat request finds its
\* text in the intent cache, and the entry is what the text resolves to in
\* another stage, the intent the request is handled with is the one an
\* uncached resolution in the present stage returns.
C26_BoostingNotCachedAcrossStages ==
  [][\A s \in Sids, t \in PairTexts :
       LET S2 == app_state[s].stage
           entry == CacheFor(s)[t]
       IN  (/\ Chat(s, t, "scores")
            /\ entry # NoEntry
            /\ \E S1 \in ConversationStage \ {S2} : entry = UncachedResolution(S1, t))
             => detect_intent(app_state[s], CacheFor(s), t, "scores").res = UncachedResolution(S2, t)]_vars

\* C27: the worker route_to_worker names is a function of the stage and the
\* intent alone: underwriting in UNDERWRITING, sales in
\* REJECTION_COUNSELING, fraud in FRAUD_CHECK, documentation in
\* DOCUMENTATION, in OFFER sales for RATE_INQUIRY and NEGOTIATE_TERMS and
\* none for every other intent, and none in every other stage.
C27_RoutingTable ==
  route_result.called
    => LET stage == route_args.state.stage
           intent == route_args.intent
           worker == route_result.worker
       IN  /\ stage = "UNDERWRITING" => worker = "underwriting"
           /\ stage = "REJECTION_COUNSELING" => worker = "sales"
           /\ stage = "FRAUD_CHECK" => worker = "fraud"
           /\ stage = "DOCUMENTATION" => worker = "documentation"
           /\ stage = "OFFER" => (worker = "sales" <=> intent \in {"RATE_INQUIRY", "NEGOTIATE_TERMS"})
           /\ stage = "OFFER" => worker \in {"sales", "none"}
           /\ stage \in {"GREETING", "COLLECTING", "KYC", "CLOSED", StrClosed} => worker = "none"

\* C27 witness: in OFFER an acceptance was routed to no worker.
C27_Witness ==
  /\ route_result.called
  /\ route_args.state.stage = "OFFER" /\ route_args.intent = "ACCEPT_OFFER"
  /\ route_result.worker = "none"

\* C28: condition-based edges take precedence over intent-based edges: a
\* message handled in COLLECTING that leaves no required field missing moves
\* the stage to UNDERWRITING, and a message handled in KYC that leaves no KYC
\* field missing moves it to FRAUD_CHECK, whatever intent the message
\* resolved to.
C28_ConditionsBeforeIntents ==
  [][\A s \in Sids :
       (/\ reply'.op = "chat"
        /\ reply'.sid = s
        /\ app_state'[s].attempts = app_state[s].attempts + 1)
         => /\ (app_state[s].stage = "COLLECTING" /\ app_state'[s].missing_fields = {})
                 => app_state'[s].stage = "UNDERWRITING"
            /\ (app_state[s].stage = "KYC" /\ app_state'[s].missing_kyc_fields = {})
                 => app_state'[s].stage = "FRAUD_CHECK"]_vars

\* C28 witness: the last message of a session resolved to PROVIDE_INFO or
\* LOAN_APPLICATION, for which the intent table of COLLECTING names
\* COLLECTING, and the session is in UNDERWRITING, a stage only the
\* completeness condition assigns.
C28_Witness ==
  \E s \in user_sessions :
    /\ reply.op = "chat"
    /\ reply.sid = s
    /\ app_state[s].stage = "UNDERWRITING"
    /\ app_state[s].last_intent \in {"PROVIDE_INFO", "LOAN_APPLICATION"}
    /\ app_state[s].missing_fields = {}
    /\ app_state[s].attempts > 1

\* C29: in every application state risk_score is unset or a value in [0,1]
\* (0..1000 thousandths), including after a fraud-triggered rejection and
\* after a hard-gate rejection.
C29_RiskScoreInUnitInterval ==
  \A s \in Sids :
    \/ app_state[s].risk_score = None
    \/ (0 <= app_state[s].risk_score /\ app_state[s].risk_score <= 1000)

\* The three decision fields of an application state.
Decision(state) == << state.risk_score, state.approval_status, state.interest_rate >>

\* C30: handling a user message leaves risk_score, approval_status and
\* interest_rate of every session unchanged, whatever the text, the resolved
\* intent, the extracted entities and the stage; a request that changes them
\* is the underwriting request or the underwriting result callback (a reset
\* puts a new application state in the session's place).
C30_HandleLeavesDecisionAlone ==
  [][\A s \in Sids :
       /\ reply'.op = "chat" => Decision(app_state'[s]) = Decision(app_state[s])
       /\ Decision(app_state'[s]) # Decision(app_state[s])
            => reply'.op \in {"underwrite", "set_underwriting_result", "reset"}]_vars

\* C30 witness: a session holding an underwriting decision has handled a
\* message that stored KYC entities and has just handled the one that moved
\* it from OFFER to KYC; the decision is the one underwriting stored.
C30_Witness ==
  \E s \in user_sessions :
    /\ reply.op = "chat"
    /\ reply.sid = s
    /\ reply.result # NoResult
    /\ app_state[s].risk_score = 300
    /\ app_state[s].approval_status = "True"
    /\ app_state[s].interest_rate = mock_interest_rate(300)
    /\ app_state[s].stage = "KYC"
    /\ app_state[s].entities["pan"] # None

\* C31: current_offer is non-empty only if the offer engine has run since
\* the session last entered OFFER or REJECTION_COUNSELING: a request that
\* gives current_offer a new non-empty value is a successful sales request,
\* never another engine's callback, and the underwriting result that brings
\* the session into OFFER or REJECTION_COUNSELING leaves no earlier offer
\* behind.
C31_OfferOnlyFromOfferEngine ==
  [][\A s \in Sids :
       /\ (app_state'[s].current_offer # app_state[s].current_offer
           /\ app_state'[s].current_offer # "None")
            => (reply'.op = "sales" /\ reply'.status = 200)
       /\ (reply'.op \in {"underwrite", "set_underwriting_result"}
           /\ app_state'[s].stage # app_state[s].stage
           /\ app_state'[s].stage \in {"OFFER", "REJECTION_COUNSELING"})
            => app_state'[s].current_offer = "None"]_vars

\* C32: re-invoking the same stage's engine is idempotent: on the state a
\* call of the underwriting callback, of the fraud callback or of the offer
\* engine (with negotiation requested or not) has left, the same call again
\* leaves the same application state.
C32_EnginesIdempotent ==
  /\ \A uw \in EngineResults :
       LET once == set_underwriting_result(master_agent_state, uw.risk_score, uw.approval_status,
                                           uw.interest_rate, "None")
       IN  set_underwriting_result(once, uw.risk_score, uw.approval_status, uw.interest_rate, "None") = once
  /\ \A passed \in BOOLEAN :
       LET once == set_fraud_check_result(master_agent_state, passed)
       IN  set_fraud_check_result(once, passed) = once
  /\ (sales_offer.called /\ ~sales_offer.raises)
       => generate_offer(master_agent_state, sales_offer.negotiation_request).state = master_agent_state

\* C33: when the intent scorer is unavailable or fails during a call,
\* handle resolves the intent by the rule-only fallback, applies the
\* extracted entities and the stage transition as usual, and returns a
\* normal response carrying that intent, not the generic error result.
C33_FallbackStillAnswers ==
  [][\A s \in Clients, t \in FallbackTexts, scorer \in FailingScorers :
       Chat(s, t, scorer)
         => /\ app_state'[s] = update_state(app_state[s], extract_entities(t), rule_based_intent_detection(t))
            /\ reply'.result.kind = "ok"
            /\ reply'.result.intent = rule_based_intent_detection(t)]_vars

\* C34: perform_underwriting never raises because of the risk model: when
\* the prediction fails after all hard gates passed, the fallback risk score
\* 0.5 is used and a complete decision record (approval status, risk score,
\* interest rate, reason) is returned; a call raises with a failing model
\* only if it raises with a working one.
C34_ModelFailureFallsBack ==
  (underwriting_result.called /\ underwriting_result.model_output.raises)
    => /\ underwriting_result.raises
            => perform_underwriting(application, [raises |-> FALSE, p |-> FALLBACK_RISK]).raises
       /\ (/\ \A f \in {"age", "income", "loan_amount"} : application[f] # None
           /\ ~AgeGateFails(application) /\ ~IncomeGateFails(application) /\ ~LoanGateFails(application))
            => /\ ~underwriting_result.raises
               /\ underwriting_result.model_called
               /\ underwriting_result.risk_score = FALLBACK_RISK
               /\ underwriting_result.approval_status
               /\ underwriting_result.interest_rate = mock_interest_rate(FALLBACK_RISK)
               /\ underwriting_result.reason = "approved"

\* C34 witness: the model failed on an application that passes every gate,
\* and the decision returned is the approval at the fallback score.
C34_Witness ==
  /\ underwriting_result.called /\ underwriting_result.model_output.raises
  /\ ~underwriting_result.raises
  /\ application["age"] = 30 /\ application["income"] = 600000 /\ application["loan_amount"] = 500000
  /\ underwriting_result.risk_score = 500
  /\ underwriting_result.approval_status
  /\ underwriting_result.interest_rate = 1375

\* C35: every stage change made by handle alone follows an edge of the
\* transition graph: GREETING to COLLECTING only on LOAN_APPLICATION or
\* PROVIDE_INFO; COLLECTING to UNDERWRITING only when no required field is
\* missing; OFFER to KYC only on ACCEPT_OFFER; OFFER to CLOSED only on
\* REJECT_OFFER; REJECTION_COUNSELING to COLLECTING only on LOAN_APPLICATION
\* or NEGOTIATE_TERMS; KYC to FRAUD_CHECK only when no KYC field is missing;
\* in UNDERWRITING, FRAUD_CHECK, DOCUMENTATION and CLOSED handle never
\* changes the stage.
C35_HandleFollowsEdges ==
  [][\A s \in Sids :
       (reply'.op = "chat" /\ app_state'[s].stage # app_state[s].stage)
         => LET a == app_state[s].stage
                b == app_state'[s].stage
                i == app_state'[s].last_intent
            IN  \/ a = "GREETING" /\ b = "COLLECTING" /\ i \in {"LOAN_APPLICATION", "PROVIDE_INFO"}
                \/ a = "COLLECTING" /\ b = "UNDERWRITING" /\ app_state'[s].missing_fields = {}
                \/ a = "OFFER" /\ b = "KYC" /\ i = "ACCEPT_OFFER"
                \/ a = "OFFER" /\ b = "CLOSED" /\ i = "REJECT_OFFER"
                \/ a = "REJECTION_COUNSELING" /\ b = "COLLECTING" /\ i \in {"LOAN_APPLICATION", "NEGOTIATE_TERMS"}
                \/ a = "KYC" /\ b = "FRAUD_CHECK" /\ app_state'[s].missing_kyc_fields = {}]_vars

\* C35 witness: a session that underwriting had priced has just handled a
\* message resolved to NEGOTIATE_TERMS and is in COLLECTING, which only the
\* edge out of REJECTION_COUNSELING gives.
C35_Witness ==
  \E s \in user_sessions :
    /\ reply.op = "chat"
    /\ reply.sid = s
    /\ reply.result # NoResult
    /\ app_state[s].stage = "COLLECTING"
    /\ app_state[s].last_intent = "NEGOTIATE_TERMS"
    /\ app_state[s].risk_score # None

\* C36: with working collaborators handle returns a normal response for
\* every stage the session can be in after the message: the result carries
\* the resolved intent and the stage, and is never the generic error result
\* with intent "error"; in particular a message that leaves the stage at
\* GREETING is answered with the greeting.
C36_HandleAnswersInEveryStage ==
  [][(reply'.op = "chat" /\ reply'.result # NoResult)
       => /\ reply'.result.kind = "ok"
          /\ reply'.result.intent = app_state'[reply'.sid].last_intent
          /\ reply'.result.stage = app_state'[reply'.sid].stage
          /\ (app_state'[reply'.sid].stage = "GREETING" => reply'.result.message = "greeting")]_vars

\* C37: whenever the result of handle carries processing = true, its worker
\* directive names an engine (it is not "none"), so that the announced
\* processing is triggered without a further message; this includes the
\* step from GREETING to COLLECTING in which one message supplies every
\* required field, and the step from OFFER to KYC with every KYC field
\* already stored.
C37_ProcessingNamesWorker ==
  (reply.op = "chat" /\ reply.result.kind = "ok" /\ reply.result.processing)
    => reply.result.worker # "none"

\* C38: the sales endpoint dispatches on the session's actual stage: in
\* OFFER it invokes the offer engine and in REJECTION_COUNSELING it produces
\* the counseling outcome; the "need more information" fallback is the
\* answer only in the other stages.
C38_SalesDispatchesOnStage ==
  (reply.op = "sales" /\ reply.found /\ reply.error = "need_more_information")
    => app_state[reply.sid].stage \notin {"OFFER", "REJECTION_COUNSELING"}

\* C39: the happy path is completable: when the user has supplied all
\* required fields, underwriting has approved, the user has accepted the
\* offer and supplied all KYC fields and the fraud check has passed (the
\* session is in DOCUMENTATION), the documentation request succeeds and the
\* stage becomes closed.
C39_HappyPathCompletes ==
  [][\A s \in user_sessions :
       (/\ reply'.op = "documentation"
        /\ reply'.sid = s
        /\ app_state[s].stage = "DOCUMENTATION"
        /\ app_state[s].approval_status = "True"
        /\ app_state[s].fraud_check_passed
        /\ app_state[s].missing_fields = {}
        /\ app_state[s].missing_kyc_fields = {})
         => /\ reply'.status = 200
            /\ app_state'[s].stage \in {"CLOSED", StrClosed}]_vars

====
